---- MODULE Spec2Model ----
(***************************************************************************)
(* gbln-cpp: the C++ value model, the scoped foreign handles and the       *)
(* conversion engine between gbln::Value and the libgbln C FFI.            *)
(*                                                                         *)
(* The foreign engine (libgbln) is external: it is modelled as a heap of   *)
(* foreign values behind opaque handles, a log of the calls made into it,  *)
(* and a fault set naming the fallible calls that report failure.          *)
(***************************************************************************)
EXTENDS Integers, Sequences, FiniteSets, TLC

VARIABLES
    pc,         \* position of the calling program: "idle", "built", "done"
    arg,        \* the argument of the operation under way
    ffi,        \* the foreign engine: heap, call log, fault set, resources
    out,        \* what the last operation gave its caller (value or error)
    wrappers    \* the scoped handles (ManagedValue/String/Config/Keys) in scope

vars == <<pc, arg, ffi, out, wrappers>>

(***************************************************************************)
(* Bounds of the model.                                                    *)
(***************************************************************************)
Delta == 4          \* integers are drawn within Delta of each width limit
MaxSmallLen == 3    \* every byte string up to this length is drawn
MaxChars == 1026    \* repeated-character strings up to this many characters
MaxFaultAt == 14    \* the failing foreign call is among the first MaxFaultAt

(***************************************************************************)
(* std::int64_t.  TLC integers are 32 bits wide, so a 64-bit integer is    *)
(* four 16-bit limbs <<d3, d2, d1, d0>>, value d3*2^48+d2*2^32+d1*2^16+d0, *)
(* with d2, d1, d0 in 0..65535.  d3 is signed (-32768..32767) for a value  *)
(* of the int64 lane; a foreign U64 may have d3 up to 65535.               *)
(***************************************************************************)
Limb == 2^16

\* carry propagation: any four integers to the canonical limbs
Norm(d) ==
    LET c0 == d[4] \div Limb
        e1 == d[3] + c0
        c1 == e1 \div Limb
        e2 == d[2] + c1
        c2 == e2 \div Limb
    IN  <<d[1] + c2, e2 % Limb, e1 % Limb, d[4] % Limb>>

I64(n) == Norm(<<0, 0, 0, n>>)              \* a small integer as int64
I64Add(a, k) == Norm(<<a[1], a[2], a[3], a[4] + k>>)

\* a < b and a <= b on limbs (lexicographic, most significant first)
I64Lt(a, b) ==
    \/ a[1] < b[1]
    \/ a[1] = b[1] /\ a[2] < b[2]
    \/ a[1] = b[1] /\ a[2] = b[2] /\ a[3] < b[3]
    \/ a[1] = b[1] /\ a[2] = b[2] /\ a[3] = b[3] /\ a[4] < b[4]
I64Le(a, b) == a = b \/ I64Lt(a, b)

InI64(a) == a[1] >= -32768 /\ a[1] <= 32767

\* std::numeric_limits<T>::max() / min(), promoted to int64
U8_MAX  == <<0, 0, 0, 255>>
U16_MAX == <<0, 0, 0, 65535>>
U32_MAX == <<0, 0, 65535, 65535>>
I8_MIN  == <<-1, 65535, 65535, 65408>>
I8_MAX  == <<0, 0, 0, 127>>
I16_MIN == <<-1, 65535, 65535, 32768>>
I16_MAX == <<0, 0, 0, 32767>>
I32_MIN == <<-1, 65535, 32768, 0>>
I32_MAX == <<0, 0, 32767, 65535>>
I64_MIN == <<-32768, 0, 0, 0>>
I64_MAX == <<32767, 65535, 65535, 65535>>
U64_MAX == <<65535, 65535, 65535, 65535>>
ZERO64  == <<0, 0, 0, 0>>

\* static_cast to an unsigned type of w bits: the value modulo 2^w
CastU8(v)  == <<0, 0, 0, v[4] % 256>>
CastU16(v) == <<0, 0, 0, v[4]>>
CastU32(v) == <<0, 0, v[3], v[4]>>
CastU64(v) == <<v[1] % Limb, v[2], v[3], v[4]>>
\* static_cast to a signed type of w bits: modulo 2^w, then sign-extended
CastI8(v)  == LET b == v[4] % 256
              IN  IF b >= 128 THEN <<-1, 65535, 65535, Limb - 256 + b>>
                  ELSE <<0, 0, 0, b>>
CastI16(v) == IF v[4] >= 32768 THEN <<-1, 65535, 65535, v[4]>>
              ELSE <<0, 0, 0, v[4]>>
CastI32(v) == IF v[3] >= 32768 THEN <<-1, 65535, v[3], v[4]>>
              ELSE <<0, 0, v[3], v[4]>>
CastI64(v) == LET t == v[1] % Limb
              IN  <<IF t >= 32768 THEN t - Limb ELSE t, v[2], v[3], v[4]>>

(***************************************************************************)
(* Byte strings (std::string and C strings): sequences of bytes 0..255.    *)
(***************************************************************************)
Repeat(unit, n) == [i \in 1..(n * Len(unit)) |-> unit[((i - 1) % Len(unit)) + 1]]

\* std::string::c_str() read by a C callee, and std::string(const char*):
\* the bytes before the first zero byte
CStr(s) == IF \A i \in 1..Len(s) : s[i] # 0 THEN s
           ELSE SubSeq(s, 1, (CHOOSE i \in 1..Len(s) :
                                 s[i] = 0 /\ \A j \in 1..(i - 1) : s[j] # 0) - 1)

\* std::string operator<, the order of std::map<std::string, Value>
RECURSIVE StrLtFrom(_, _, _)
StrLtFrom(a, b, i) ==
    IF i > Len(b) THEN FALSE
    ELSE IF i > Len(a) THEN TRUE
    ELSE IF a[i] # b[i] THEN a[i] < b[i]
    ELSE StrLtFrom(a, b, i + 1)
StrLt(a, b) == StrLtFrom(a, b, 1)

(***************************************************************************)
(* gbln::Value (value.hpp): the seven variants.  Every variant carries the *)
(* same fields so that values of different variants compare.               *)
(***************************************************************************)
VNull         == [tag |-> "Null",   num |-> ZERO64, str |-> <<>>, keys |-> <<>>, kids |-> <<>>]
VBool(b)      == [tag |-> "Bool",   num |-> I64(IF b THEN 1 ELSE 0), str |-> <<>>, keys |-> <<>>, kids |-> <<>>]
VInt(n)       == [tag |-> "Int",    num |-> n, str |-> <<>>, keys |-> <<>>, kids |-> <<>>]
VFloat(f)     == [tag |-> "Float",  num |-> f, str |-> <<>>, keys |-> <<>>, kids |-> <<>>]
VStr(s)       == [tag |-> "Str",    num |-> ZERO64, str |-> s, keys |-> <<>>, kids |-> <<>>]
VObject(k, c) == [tag |-> "Object", num |-> ZERO64, str |-> <<>>, keys |-> k, kids |-> c]
VArray(c)     == [tag |-> "Array",  num |-> ZERO64, str |-> <<>>, keys |-> <<>>, kids |-> c]

(***************************************************************************)
(* The foreign engine behind ffi.hpp.                                      *)
(*   heap    the foreign values ever created; a handle is an index, 0 is   *)
(*           the null pointer.  ins counts the containers a value was      *)
(*           handed to, freed the times it was deallocated.                *)
(*   log     the calls made into the engine, in order                      *)
(*   faults  the fallible calls (by ordinal) that report failure           *)
(*   n       the number of fallible calls made so far                      *)
(***************************************************************************)
NULLH == 0

IntTags == {"I8", "I16", "I32", "I64", "U8", "U16", "U32", "U64"}
ValueTags == IntTags \cup {"F32", "F64", "Str", "Bool", "Null", "Object", "Array"}

Node(tag, num, str, cap) ==
    [tag |-> tag, num |-> num, str |-> str, cap |-> cap,
     keys |-> <<>>, kids |-> <<>>, ins |-> 0, freed |-> 0]

Call(op, h, h2, num, str, cap, ret) ==
    [op |-> op, h |-> h, h2 |-> h2, num |-> num, str |-> str, cap |-> cap, ret |-> ret]

Engine(faults) ==
    [heap |-> <<>>, log |-> <<>>, faults |-> faults, n |-> 0,
     keylists |-> <<>>, strings |-> <<>>, configs |-> <<>>, lastError |-> <<>>,
     nullStr |-> FALSE]

Faulty(st) == (st.n + 1) \in st.faults
FaultsFired(st) == st.faults \cap (1..st.n)
Logged(st, c) == [st EXCEPT !.log = Append(@, c)]
Ticked(st, c) == [st EXCEPT !.log = Append(@, c), !.n = @ + 1]

\* what an operation of the C++ side gives back: the engine afterwards, the
\* returned value, and the exception thrown ("" on normal return)
Return(st, ret) == [st |-> st, ret |-> ret, err |-> "", msg |-> <<>>]
\* msg is the exception text, as the sequence of its parts
Throw(st, kind, msg) == [st |-> st, ret |-> NULLH, err |-> kind, msg |-> msg]

\* a constructor gbln_value_new_*: a fresh value owned by the caller, or null
NewValue(st, op, node) ==
    IF Faulty(st)
    THEN Return(Ticked(st, Call(op, NULLH, NULLH, node.num, node.str, node.cap, NULLH)), NULLH)
    ELSE LET h == Len(st.heap) + 1
         IN  Return([Ticked(st, Call(op, NULLH, NULLH, node.num, node.str, node.cap, h))
                        EXCEPT !.heap = Append(@, node)], h)

gbln_value_new_i8(st, v)  == NewValue(st, "gbln_value_new_i8",  Node("I8",  v, <<>>, 0))
gbln_value_new_i16(st, v) == NewValue(st, "gbln_value_new_i16", Node("I16", v, <<>>, 0))
gbln_value_new_i32(st, v) == NewValue(st, "gbln_value_new_i32", Node("I32", v, <<>>, 0))
gbln_value_new_i64(st, v) == NewValue(st, "gbln_value_new_i64", Node("I64", v, <<>>, 0))
gbln_value_new_u8(st, v)  == NewValue(st, "gbln_value_new_u8",  Node("U8",  v, <<>>, 0))
gbln_value_new_u16(st, v) == NewValue(st, "gbln_value_new_u16", Node("U16", v, <<>>, 0))
gbln_value_new_u32(st, v) == NewValue(st, "gbln_value_new_u32", Node("U32", v, <<>>, 0))
gbln_value_new_u64(st, v) == NewValue(st, "gbln_value_new_u64", Node("U64", v, <<>>, 0))

gbln_value_new_null(st)    == NewValue(st, "gbln_value_new_null",   Node("Null", ZERO64, <<>>, 0))
gbln_value_new_bool(st, b) == NewValue(st, "gbln_value_new_bool",   Node("Bool", b, <<>>, 0))
gbln_value_new_f64(st, f)  == NewValue(st, "gbln_value_new_f64",    Node("F64", f, <<>>, 0))
gbln_value_new_object(st)  == NewValue(st, "gbln_value_new_object", Node("Object", ZERO64, <<>>, 0))
gbln_value_new_array(st)   == NewValue(st, "gbln_value_new_array",  Node("Array", ZERO64, <<>>, 0))

\* GblnErrorCode
Ok == 0
ErrorUnexpectedEof == 4
ErrorStringTooLong == 7
ErrorDuplicateKey == 10
ErrorNullPointer == 11
ErrorIo == 12

\* the values a container owns, itself included
RECURSIVE Subtree(_, _)
Subtree(heap, h) ==
    {h} \cup UNION {Subtree(heap, heap[h].kids[i]) : i \in 1..Len(heap[h].kids)}

\* gbln_value_free: deallocates the value and everything it owns
gbln_value_free(st, h) ==
    LET c == Call("gbln_value_free", h, NULLH, ZERO64, <<>>, 0, 0)
    IN  IF h = NULLH THEN Logged(st, c)
        ELSE LET gone == Subtree(st.heap, h)
             IN  [Logged(st, c) EXCEPT !.heap =
                    [i \in 1..Len(st.heap) |->
                        IF i \in gone THEN [st.heap[i] EXCEPT !.freed = @ + 1]
                        ELSE st.heap[i]]]

\* a failing call leaves its message in the process-wide last-error state;
\* the message is named after the ordinal of the call
Failed(st, c) == [Ticked(st, c) EXCEPT !.lastError = <<"error of call", st.n + 1>>]

\* gbln_object_insert: takes ownership of value on success, and only then
gbln_object_insert(st, object, key, value) ==
    LET c(code) == Call("gbln_object_insert", object, value, ZERO64, key, 0, code)
    IN  IF object = NULLH \/ value = NULLH
        THEN Return(Failed(st, c(ErrorNullPointer)), ErrorNullPointer)
        ELSE IF \E i \in 1..Len(st.heap[object].keys) : st.heap[object].keys[i] = key
        THEN Return(Failed(st, c(ErrorDuplicateKey)), ErrorDuplicateKey)
        ELSE IF Faulty(st)
        THEN Return(Failed(st, c(ErrorStringTooLong)), ErrorStringTooLong)
        ELSE Return([Ticked(st, c(Ok)) EXCEPT
                        !.heap[object].keys = Append(@, key),
                        !.heap[object].kids = Append(@, value),
                        !.heap[value].ins = @ + 1], Ok)

\* gbln_array_push: takes ownership of value on success, and only then
gbln_array_push(st, array, value) ==
    LET c(code) == Call("gbln_array_push", array, value, ZERO64, <<>>, 0, code)
    IN  IF array = NULLH \/ value = NULLH
        THEN Return(Failed(st, c(ErrorNullPointer)), ErrorNullPointer)
        ELSE IF Faulty(st)
        THEN Return(Failed(st, c(ErrorStringTooLong)), ErrorStringTooLong)
        ELSE Return([Ticked(st, c(Ok)) EXCEPT
                        !.heap[array].kids = Append(@, value),
                        !.heap[value].ins = @ + 1], Ok)

\* the other foreign resources: key lists, strings and configurations
KeyList(keys) == [keys |-> keys, count |-> Len(keys), freed |-> 0, freedWith |-> 0]
Resource(content) == [content |-> content, freed |-> 0]

\* gbln_keys_free(keys, count)
gbln_keys_free(st, keys, count) ==
    LET c == Call("gbln_keys_free", keys, NULLH, ZERO64, <<>>, count, 0)
    IN  IF keys = NULLH THEN Logged(st, c)
        ELSE [Logged(st, c) EXCEPT !.keylists[keys].freed = @ + 1,
                                   !.keylists[keys].freedWith = count]

\* gbln_string_free
gbln_string_free(st, s) ==
    LET c == Call("gbln_string_free", s, NULLH, ZERO64, <<>>, 0, 0)
    IN  IF s = NULLH THEN Logged(st, c)
        ELSE [Logged(st, c) EXCEPT !.strings[s].freed = @ + 1]

\* gbln_config_free
gbln_config_free(st, config) ==
    LET c == Call("gbln_config_free", config, NULLH, ZERO64, <<>>, 0, 0)
    IN  IF config = NULLH THEN Logged(st, c)
        ELSE [Logged(st, c) EXCEPT !.configs[config].freed = @ + 1]

\* a call returning a freshly allocated string owned by the caller, or null
NewString(st, op, h, content) ==
    IF Faulty(st)
    THEN Return(Ticked(st, Call(op, h, NULLH, ZERO64, <<>>, 0, NULLH)), NULLH)
    ELSE LET p == Len(st.strings) + 1
         IN  Return([Ticked(st, Call(op, h, NULLH, ZERO64, <<>>, 0, p))
                        EXCEPT !.strings = Append(@, Resource(content))], p)

\* gbln_last_error_message: a copy of the last-error text, null when the
\* engine has none to give
gbln_last_error_message(st) ==
    IF st.lastError = <<>>
    THEN Return(Logged(st, Call("gbln_last_error_message", NULLH, NULLH, ZERO64, <<>>, 0, NULLH)), NULLH)
    ELSE NewString(st, "gbln_last_error_message", NULLH, st.lastError)

\* gbln_config_new: a configuration owned by the caller, or null
gbln_config_new(st, config) ==
    IF Faulty(st)
    THEN Return(Ticked(st, Call("gbln_config_new", NULLH, NULLH, ZERO64, <<>>, 0, NULLH)), NULLH)
    ELSE LET p == Len(st.configs) + 1
         IN  Return([Ticked(st, Call("gbln_config_new", NULLH, NULLH, ZERO64, <<>>, 0, p))
                        EXCEPT !.configs = Append(@, Resource(config))], p)

\* gbln_object_keys: a key list owned by the caller and its count; a null
\* list when the engine cannot give one
gbln_object_keys(st, h) ==
    LET keys == st.heap[h].keys
    IN  IF Faulty(st)
        THEN [st |-> Ticked(st, Call("gbln_object_keys", h, NULLH, ZERO64, <<>>, Len(keys), NULLH)),
              ret |-> NULLH, count |-> Len(keys)]
        ELSE LET p == Len(st.keylists) + 1
             IN  [st |-> [Ticked(st, Call("gbln_object_keys", h, NULLH, ZERO64, <<>>, Len(keys), p))
                            EXCEPT !.keylists = Append(@, KeyList(keys))],
                  ret |-> p, count |-> Len(keys)]

\* gbln_value_type
gbln_value_type(st, h) == st.heap[h].tag

\* the scalar accessors: the value and the ok flag.  gbln_value_as_i64 is the
\* widening accessor of all eight integer types; a U64 above the int64 range
\* reads as its two's complement.
Accessed(st, op, h, num, str, ok) ==
    [st |-> Ticked(st, Call(op, h, NULLH, num, str, 0, IF ok THEN 1 ELSE 0)),
     num |-> num, str |-> str, ok |-> ok]
gbln_value_as_bool(st, h) ==
    IF Faulty(st) THEN Accessed(st, "gbln_value_as_bool", h, ZERO64, <<>>, FALSE)
    ELSE Accessed(st, "gbln_value_as_bool", h, st.heap[h].num, <<>>, TRUE)
gbln_value_as_i64(st, h) ==
    IF Faulty(st) THEN Accessed(st, "gbln_value_as_i64", h, ZERO64, <<>>, FALSE)
    ELSE Accessed(st, "gbln_value_as_i64", h, CastI64(st.heap[h].num), <<>>, TRUE)
gbln_value_as_f32(st, h) ==
    IF Faulty(st) THEN Accessed(st, "gbln_value_as_f32", h, ZERO64, <<>>, FALSE)
    ELSE Accessed(st, "gbln_value_as_f32", h, st.heap[h].num, <<>>, TRUE)
gbln_value_as_f64(st, h) ==
    IF Faulty(st) THEN Accessed(st, "gbln_value_as_f64", h, ZERO64, <<>>, FALSE)
    ELSE Accessed(st, "gbln_value_as_f64", h, st.heap[h].num, <<>>, TRUE)
\* gbln_value_as_string: a pointer into the value (borrowed, here the handle
\* of the value) and the ok flag.  A failing call clears the flag, or, with
\* nullStr, sets it and returns a null pointer.  The call is logged with the
\* flag as cap and the pointer as ret.
gbln_value_as_string(st, h) ==
    LET c(str, ok, ptr) ==
            Call("gbln_value_as_string", h, NULLH, ZERO64, str, IF ok THEN 1 ELSE 0, ptr)
        r(str, ok, ptr) ==
            [st |-> Ticked(st, c(str, ok, ptr)), num |-> ZERO64, str |-> str,
             ok |-> ok, ptr |-> ptr]
    IN  IF Faulty(st) THEN r(<<>>, st.nullStr, NULLH)
        ELSE r(st.heap[h].str, TRUE, h)

\* gbln_object_get: the child under key (borrowed), null when there is none
gbln_object_get(st, h, key) ==
    LET keys == st.heap[h].keys
        c(r) == Call("gbln_object_get", h, NULLH, ZERO64, key, 0, r)
    IN  IF Faulty(st) \/ ~ \E i \in 1..Len(keys) : keys[i] = key
        THEN Return(Ticked(st, c(NULLH)), NULLH)
        ELSE LET r == st.heap[h].kids[CHOOSE i \in 1..Len(keys) : keys[i] = key]
             IN  Return(Ticked(st, c(r)), r)

\* gbln_array_len, gbln_array_get (borrowed, null when there is none)
gbln_array_len(st, h) == Len(st.heap[h].kids)
gbln_array_get(st, h, index) ==
    LET c(r) == Call("gbln_array_get", h, NULLH, ZERO64, <<>>, index, r)
    IN  IF Faulty(st) \/ index >= Len(st.heap[h].kids)
        THEN Return(Ticked(st, c(NULLH)), NULLH)
        ELSE Return(Ticked(st, c(st.heap[h].kids[index + 1])), st.heap[h].kids[index + 1])

(***************************************************************************)
(* The scoped handles of managed_value.hpp.  A wrapper is its fields: the  *)
(* kind of resource, the pointer held (0 once moved from) and, for a key   *)
(* list, the count.                                                        *)
(***************************************************************************)
Wrapper(kind, ptr, count) == [kind |-> kind, ptr |-> ptr, count |-> count]

\* the deleter lambda given to std::unique_ptr: if (p) gbln_*_free(p)
Deleter(st, kind, p) ==
    IF p = NULLH THEN st
    ELSE CASE kind = "value"  -> gbln_value_free(st, p)
           [] kind = "string" -> gbln_string_free(st, p)
           [] kind = "config" -> gbln_config_free(st, p)

\* ManagedValue / ManagedString / ManagedConfig constructor: throws on null;
\* the unique_ptr member built from null releases nothing
Managed_ctor_accepts_null(st, kind, ptr) ==
    [st |-> st, w |-> Wrapper(kind, ptr, 0), err |-> ""]

Managed_ctor(st, kind, ptr) ==
    IF ptr = NULLH
    THEN [st |-> st, w |-> Wrapper(kind, NULLH, 0), err |-> "std::invalid_argument"]
    ELSE [st |-> st, w |-> Wrapper(kind, ptr, 0), err |-> ""]

\* ~unique_ptr: the deleter runs when the pointer is not null
Managed_dtor(st, w) == IF w.ptr # NULLH THEN Deleter(st, w.kind, w.ptr) ELSE st

\* ManagedKeys::free_keys
ManagedKeys_free_keys(st, w) ==
    IF w.ptr # NULLH
    THEN [st |-> gbln_keys_free(st, w.ptr, w.count), w |-> Wrapper("keys", NULLH, 0)]
    ELSE [st |-> st, w |-> w]

\* ManagedKeys(char** keys, std::size_t count)
ManagedKeys_ctor(st, keys, count) ==
    IF keys = NULLH /\ count > 0
    THEN [st |-> st, w |-> Wrapper("keys", NULLH, 0), err |-> "std::invalid_argument"]
    ELSE [st |-> st, w |-> Wrapper("keys", keys, count), err |-> ""]

\* ~ManagedKeys
ManagedKeys_dtor(st, w) == ManagedKeys_free_keys(st, w).st

\* the defaulted move constructor of the unique_ptr wrappers: the new
\* wrapper takes the pointer, the source holds null
Managed_move_ctor(other) ==
    [this |-> other, other |-> Wrapper(other.kind, NULLH, 0)]

\* ManagedKeys(ManagedKeys&& other)
ManagedKeys_move_ctor_keeps_source(other) ==
    [this |-> Wrapper("keys", other.ptr, other.count), other |-> other]

ManagedKeys_move_ctor(other) ==
    [this |-> Wrapper("keys", other.ptr, other.count),
     other |-> Wrapper("keys", NULLH, 0)]

\* the defaulted move assignment of the unique_ptr wrappers,
\* reset(other.release()): other gives up its pointer, this releases what it
\* held and takes it; self is this == &other
Managed_move_assign(st, this, other, self) ==
    IF self THEN [st |-> st, this |-> this, other |-> this]
    ELSE [st |-> Managed_dtor(st, this), this |-> other,
          other |-> Wrapper(other.kind, NULLH, 0)]

\* ManagedKeys& operator=(ManagedKeys&& other)
ManagedKeys_move_assign(st, this, other, self) ==
    IF ~self
    THEN LET f == ManagedKeys_free_keys(st, this)
         IN  [st |-> f.st, this |-> Wrapper("keys", other.ptr, other.count),
              other |-> Wrapper("keys", NULLH, 0)]
    ELSE [st |-> st, this |-> this, other |-> this]

\* ManagedKeys::operator[]: the key at index, as a C string
ManagedKeys_at(st, w, index) == st.keylists[w.ptr].keys[index + 1]

(***************************************************************************)
(* create_optimal_int (conversion.cpp): the smallest integer type that     *)
(* fits, unsigned first for a non-negative value.                          *)
(***************************************************************************)
create_optimal_int_signed_first(st, value) ==
    IF I64Le(I8_MIN, value) /\ I64Le(value, I8_MAX)
    THEN gbln_value_new_i8(st, CastI8(value))
    ELSE IF I64Le(I16_MIN, value) /\ I64Le(value, I16_MAX)
    THEN gbln_value_new_i16(st, CastI16(value))
    ELSE IF I64Le(I32_MIN, value) /\ I64Le(value, I32_MAX)
    THEN gbln_value_new_i32(st, CastI32(value))
    ELSE IF I64Le(ZERO64, value) THEN gbln_value_new_u64(st, CastU64(value))
    ELSE gbln_value_new_i64(st, value)

create_optimal_int_off_by_one(st, value) ==
    IF I64Le(ZERO64, value)
    THEN IF I64Le(value, I64Add(U8_MAX, 1)) THEN gbln_value_new_u8(st, CastU8(value))
         ELSE IF I64Le(value, I64Add(U16_MAX, 1)) THEN gbln_value_new_u16(st, CastU16(value))
         ELSE IF I64Le(value, I64Add(U32_MAX, 1)) THEN gbln_value_new_u32(st, CastU32(value))
         ELSE gbln_value_new_u64(st, CastU64(value))
    ELSE IF I64Le(I8_MIN, value) /\ I64Le(value, I8_MAX)
         THEN gbln_value_new_i8(st, CastI8(value))
    ELSE IF I64Le(I16_MIN, value) /\ I64Le(value, I16_MAX)
         THEN gbln_value_new_i16(st, CastI16(value))
    ELSE IF I64Le(I32_MIN, value) /\ I64Le(value, I32_MAX)
         THEN gbln_value_new_i32(st, CastI32(value))
    ELSE gbln_value_new_i64(st, value)

create_optimal_int(st, value) ==
    IF I64Le(ZERO64, value)
    THEN IF I64Le(value, U8_MAX) THEN gbln_value_new_u8(st, CastU8(value))
         ELSE IF I64Le(value, U16_MAX) THEN gbln_value_new_u16(st, CastU16(value))
         ELSE IF I64Le(value, U32_MAX) THEN gbln_value_new_u32(st, CastU32(value))
         ELSE gbln_value_new_u64(st, CastU64(value))
    ELSE IF I64Le(I8_MIN, value) /\ I64Le(value, I8_MAX)
         THEN gbln_value_new_i8(st, CastI8(value))
    ELSE IF I64Le(I16_MIN, value) /\ I64Le(value, I16_MAX)
         THEN gbln_value_new_i16(st, CastI16(value))
    ELSE IF I64Le(I32_MIN, value) /\ I64Le(value, I32_MAX)
         THEN gbln_value_new_i32(st, CastI32(value))
    ELSE gbln_value_new_i64(st, value)

(***************************************************************************)
(* create_optimal_string (conversion.cpp): count the UTF-8 characters by   *)
(* their lead bytes, then pick the capacity for that count.                *)
(***************************************************************************)
\* c & mask for the masks 0xE0, 0xF0, 0xF8 (the top 3, 4, 5 bits of a byte)
AndE0(c) == c - (c % 32)
AndF0(c) == c - (c % 16)
AndF8(c) == c - (c % 8)

ScanStart == [i |-> 0, char_count |-> 0, bad |-> FALSE]

\* one iteration of the for loop over the bytes; i is the 0-based offset
ScanStep_counts_bytes(str, s) ==
    LET c == str[s.i + 1]
    IN  IF c < 128 \/ AndE0(c) = 192 \/ AndF0(c) = 224 \/ AndF8(c) = 240
        THEN [s EXCEPT !.i = @ + 1, !.char_count = @ + 1]
        ELSE [s EXCEPT !.bad = TRUE]

\* a scan that also wants every byte after a lead, as far as the string goes,
\* to be a continuation byte 10xxxxxx
ScanStep_checks_continuation(str, s) ==
    LET c == str[s.i + 1]
        n == IF c < 128 THEN 1
             ELSE IF AndE0(c) = 192 THEN 2
             ELSE IF AndF0(c) = 224 THEN 3
             ELSE IF AndF8(c) = 240 THEN 4
             ELSE 0
    IN  IF n = 0 THEN [s EXCEPT !.bad = TRUE]
        ELSE IF \E j \in (s.i + 2)..(s.i + n) : j <= Len(str) /\ str[j] \notin 128..191
        THEN [s EXCEPT !.bad = TRUE]
        ELSE [s EXCEPT !.i = @ + n, !.char_count = @ + 1]

ScanStep(str, s) ==
    LET c == str[s.i + 1]
    IN  IF c < 128 THEN [s EXCEPT !.i = @ + 1, !.char_count = @ + 1]
        ELSE IF AndE0(c) = 192 THEN [s EXCEPT !.i = @ + 2, !.char_count = @ + 1]
        ELSE IF AndF0(c) = 224 THEN [s EXCEPT !.i = @ + 3, !.char_count = @ + 1]
        ELSE IF AndF8(c) = 240 THEN [s EXCEPT !.i = @ + 4, !.char_count = @ + 1]
        ELSE [s EXCEPT !.bad = TRUE]

\* the for loop: iterate while i < str.size() and nothing was thrown.  It is
\* evaluated in blocks of ScanBlockLen iterations to keep the evaluation flat.
ScanBlockLen == 2^5
RECURSIVE ScanBlock(_, _, _)
ScanBlock(str, s, k) ==
    IF k = 0 \/ s.bad \/ s.i >= Len(str) THEN s
    ELSE ScanBlock(str, ScanStep(str, s), k - 1)
RECURSIVE ScanLoop(_, _)
ScanLoop(str, s) ==
    IF s.bad \/ s.i >= Len(str) THEN s
    ELSE ScanLoop(str, ScanBlock(str, s, ScanBlockLen))

\* gbln_value_new_str reads a C string: a copy of the bytes it is given
gbln_value_new_str(st, value, max_len) ==
    NewValue(st, "gbln_value_new_str", Node("Str", ZERO64, value, max_len))

\* the if / else-if chain choosing max_len; 0 stands for the final else
select_max_len_strict(char_count) ==
    IF char_count < 2 THEN 2
    ELSE IF char_count < 4 THEN 4
    ELSE IF char_count < 8 THEN 8
    ELSE IF char_count < 16 THEN 16
    ELSE IF char_count < 32 THEN 32
    ELSE IF char_count < 64 THEN 64
    ELSE IF char_count < 128 THEN 128
    ELSE IF char_count < 256 THEN 256
    ELSE IF char_count < 512 THEN 512
    ELSE IF char_count < 1024 THEN 1024
    ELSE 0

select_max_len(char_count) ==
    IF char_count <= 2 THEN 2
    ELSE IF char_count <= 4 THEN 4
    ELSE IF char_count <= 8 THEN 8
    ELSE IF char_count <= 16 THEN 16
    ELSE IF char_count <= 32 THEN 32
    ELSE IF char_count <= 64 THEN 64
    ELSE IF char_count <= 128 THEN 128
    ELSE IF char_count <= 256 THEN 256
    ELSE IF char_count <= 512 THEN 512
    ELSE IF char_count <= 1024 THEN 1024
    ELSE 0

create_optimal_string(st, str) ==
    LET s == ScanLoop(str, ScanStart)
        max_len == select_max_len(s.char_count)
    IN  IF s.bad
        THEN Throw(st, "SerialiseError", <<"Invalid UTF-8 sequence in string">>)
        ELSE IF max_len = 0
        THEN Throw(st, "SerialiseError",
                   <<"String too long (", s.char_count, " characters, max 1024)">>)
        ELSE gbln_value_new_str(st, CStr(str), max_len)

(***************************************************************************)
(* cpp_to_ffi (conversion.cpp): the visit over the seven variants.         *)
(***************************************************************************)
\* the body of the loop over an object's entries, after the child was
\* converted: insert it; on an error free the child and the object, throw
object_insert_step_leaks_child(st, obj, key, ffi_value) ==
    LET r == gbln_object_insert(st, obj, CStr(key), ffi_value)
    IN  IF r.ret # Ok
        THEN Throw(gbln_value_free(r.st, obj),
                   "SerialiseError", <<"Failed to insert object key: ", key>>)
        ELSE Return(r.st, obj)

object_insert_step_frees_always(st, obj, key, ffi_value) ==
    LET r == gbln_object_insert(st, obj, CStr(key), ffi_value)
    IN  IF r.ret # Ok
        THEN Throw(gbln_value_free(gbln_value_free(r.st, ffi_value), obj),
                   "SerialiseError", <<"Failed to insert object key: ", key>>)
        ELSE Return(gbln_value_free(r.st, ffi_value), obj)

object_insert_step(st, obj, key, ffi_value) ==
    LET r == gbln_object_insert(st, obj, CStr(key), ffi_value)
    IN  IF r.ret # Ok
        THEN Throw(gbln_value_free(gbln_value_free(r.st, ffi_value), obj),
                   "SerialiseError", <<"Failed to insert object key: ", key>>)
        ELSE Return(r.st, obj)

\* the body of the loop over an array's elements, after the element was
\* converted: push it; on an error free the element and the array, throw
array_push_step(st, arr, ffi_value) ==
    LET r == gbln_array_push(st, arr, ffi_value)
    IN  IF r.ret # Ok
        THEN Throw(gbln_value_free(gbln_value_free(r.st, ffi_value), arr),
                   "SerialiseError", <<"Failed to push array element">>)
        ELSE Return(r.st, arr)

RECURSIVE cpp_to_ffi(_, _), cpp_to_ffi_entries(_, _, _, _), cpp_to_ffi_elements(_, _, _, _)

\* the entries taken from the last key down to the first
cpp_to_ffi_entries_descending(st, obj, arg_, i) ==
    IF i > Len(arg_.keys) THEN Return(st, obj)
    ELSE LET at == Len(arg_.keys) + 1 - i
             inserted(r) ==
                 IF r.err # "" THEN r
                 ELSE cpp_to_ffi_entries(r.st, obj, arg_, i + 1)
             converted(ffi_value) ==
                 IF ffi_value.err # "" THEN ffi_value
                 ELSE inserted(object_insert_step(ffi_value.st, obj, arg_.keys[at],
                                                  ffi_value.ret))
         IN  converted(cpp_to_ffi(st, arg_.kids[at]))

\* for (const auto& [key, value] : arg), from the i-th entry in key order.
\* obj is a raw pointer: an exception out of the child's conversion passes
\* through this frame without releasing it.
cpp_to_ffi_entries(st, obj, arg_, i) ==
    IF i > Len(arg_.keys) THEN Return(st, obj)
    ELSE LET inserted(r) ==
                 IF r.err # "" THEN r
                 ELSE cpp_to_ffi_entries(r.st, obj, arg_, i + 1)
             converted(ffi_value) ==
                 IF ffi_value.err # "" THEN ffi_value
                 ELSE inserted(object_insert_step(ffi_value.st, obj, arg_.keys[i],
                                                  ffi_value.ret))
         IN  converted(cpp_to_ffi(st, arg_.kids[i]))

\* for (const auto& elem : arg), from the i-th element
cpp_to_ffi_elements(st, arr, arg_, i) ==
    IF i > Len(arg_.kids) THEN Return(st, arr)
    ELSE LET pushed(r) ==
                 IF r.err # "" THEN r
                 ELSE cpp_to_ffi_elements(r.st, arr, arg_, i + 1)
             converted(ffi_value) ==
                 IF ffi_value.err # "" THEN ffi_value
                 ELSE pushed(array_push_step(ffi_value.st, arr, ffi_value.ret))
         IN  converted(cpp_to_ffi(st, arg_.kids[i]))

cpp_to_ffi(st, cpp_value) ==
    CASE cpp_value.tag = "Null"  -> gbln_value_new_null(st)
      [] cpp_value.tag = "Bool"  -> gbln_value_new_bool(st, cpp_value.num)
      [] cpp_value.tag = "Int"   -> create_optimal_int(st, cpp_value.num)
      [] cpp_value.tag = "Float" -> gbln_value_new_f64(st, cpp_value.num)
      [] cpp_value.tag = "Str"   -> create_optimal_string(st, cpp_value.str)
      [] cpp_value.tag = "Object" ->
            LET obj == gbln_value_new_object(st)
            IN  IF obj.ret = NULLH
                THEN Throw(obj.st, "SerialiseError", <<"Failed to create object">>)
                ELSE cpp_to_ffi_entries(obj.st, obj.ret, cpp_value, 1)
      [] cpp_value.tag = "Array" ->
            LET arr == gbln_value_new_array(st)
            IN  IF arr.ret = NULLH
                THEN Throw(arr.st, "SerialiseError", <<"Failed to create array">>)
                ELSE cpp_to_ffi_elements(arr.st, arr.ret, cpp_value, 1)
      [] OTHER -> Throw(st, "SerialiseError", <<"Unknown C++ value type">>)

(***************************************************************************)
(* ffi_to_cpp (conversion.cpp): the switch over the foreign type.          *)
(***************************************************************************)
\* std::map<std::string, Value>: obj[key] = value keeps the keys unique and
\* in ascending order
MapPut(obj, key, value) ==
    IF \E i \in 1..Len(obj.keys) : obj.keys[i] = key
    THEN LET i == CHOOSE j \in 1..Len(obj.keys) : obj.keys[j] = key
         IN  [obj EXCEPT !.kids[i] = value]
    ELSE LET below == Cardinality({j \in 1..Len(obj.keys) : StrLt(obj.keys[j], key)})
         IN  [obj EXCEPT
                !.keys = SubSeq(@, 1, below) \o <<key>> \o SubSeq(@, below + 1, Len(@)),
                !.kids = SubSeq(@, 1, below) \o <<value>> \o SubSeq(@, below + 1, Len(@))]

RECURSIVE ffi_to_cpp(_, _), ffi_to_cpp_entries(_, _, _, _, _), ffi_to_cpp_elements(_, _, _, _, _)

\* for (i = 0; i < count; ++i) over the managed keys, from index i
ffi_to_cpp_entries_skips_failed(st, ffi_value, managed_keys, obj, i) ==
    IF i >= managed_keys.count THEN Return(st, obj)
    ELSE LET key == ManagedKeys_at(st, managed_keys, i)
             converted(value) ==
                 IF value.err # ""
                 THEN ffi_to_cpp_entries(value.st, ffi_value, managed_keys, obj, i + 1)
                 ELSE ffi_to_cpp_entries(value.st, ffi_value, managed_keys,
                                         MapPut(obj, CStr(key), value.ret), i + 1)
             fetched(value_ptr) ==
                 IF value_ptr.ret = NULLH
                 THEN Throw(value_ptr.st, "ParseError",
                            <<"Failed to get object value for key: ", key>>)
                 ELSE converted(ffi_to_cpp(value_ptr.st, value_ptr.ret))
         IN  fetched(gbln_object_get(st, ffi_value, key))

ffi_to_cpp_entries(st, ffi_value, managed_keys, obj, i) ==
    IF i >= managed_keys.count THEN Return(st, obj)
    ELSE LET key == ManagedKeys_at(st, managed_keys, i)
             converted(value) ==
                 IF value.err # "" THEN value
                 ELSE ffi_to_cpp_entries(value.st, ffi_value, managed_keys,
                                         MapPut(obj, CStr(key), value.ret), i + 1)
             fetched(value_ptr) ==
                 IF value_ptr.ret = NULLH
                 THEN Throw(value_ptr.st, "ParseError",
                            <<"Failed to get object value for key: ", key>>)
                 ELSE converted(ffi_to_cpp(value_ptr.st, value_ptr.ret))
         IN  fetched(gbln_object_get(st, ffi_value, key))

\* for (i = 0; i < len; ++i) over the elements, from index i
ffi_to_cpp_elements_prepends(st, ffi_value, len, arr, i) ==
    IF i >= len THEN Return(st, arr)
    ELSE LET converted(value) ==
                 IF value.err # "" THEN value
                 ELSE ffi_to_cpp_elements(value.st, ffi_value, len,
                                          [arr EXCEPT !.kids = <<value.ret>> \o @],
                                          i + 1)
             fetched(elem_ptr) ==
                 IF elem_ptr.ret = NULLH
                 THEN Throw(elem_ptr.st, "ParseError",
                            <<"Failed to get array element at index: ", i>>)
                 ELSE converted(ffi_to_cpp(elem_ptr.st, elem_ptr.ret))
         IN  fetched(gbln_array_get(st, ffi_value, i))

\* the loop with each element converted twice, the first result dropped
ffi_to_cpp_elements_reads_twice(st, ffi_value, len, arr, i) ==
    IF i >= len THEN Return(st, arr)
    ELSE LET converted(value) ==
                 IF value.err # "" THEN value
                 ELSE ffi_to_cpp_elements(value.st, ffi_value, len,
                                          [arr EXCEPT !.kids = Append(@, value.ret)],
                                          i + 1)
             fetched(elem_ptr) ==
                 IF elem_ptr.ret = NULLH
                 THEN Throw(elem_ptr.st, "ParseError",
                            <<"Failed to get array element at index: ", i>>)
                 ELSE converted(ffi_to_cpp(ffi_to_cpp(elem_ptr.st, elem_ptr.ret).st,
                                           elem_ptr.ret))
         IN  fetched(gbln_array_get(st, ffi_value, i))

\* the loop with each element released once it has been converted, as if the
\* pointer gbln_array_get returns were owned
ffi_to_cpp_elements_owns_element(st, ffi_value, len, arr, i) ==
    IF i >= len THEN Return(st, arr)
    ELSE LET converted(elem, value) ==
                 IF value.err # "" THEN value
                 ELSE ffi_to_cpp_elements(gbln_value_free(value.st, elem), ffi_value, len,
                                          [arr EXCEPT !.kids = Append(@, value.ret)],
                                          i + 1)
             fetched(elem_ptr) ==
                 IF elem_ptr.ret = NULLH
                 THEN Throw(elem_ptr.st, "ParseError",
                            <<"Failed to get array element at index: ", i>>)
                 ELSE converted(elem_ptr.ret, ffi_to_cpp(elem_ptr.st, elem_ptr.ret))
         IN  fetched(gbln_array_get(st, ffi_value, i))

ffi_to_cpp_elements(st, ffi_value, len, arr, i) ==
    IF i >= len THEN Return(st, arr)
    ELSE LET converted(value) ==
                 IF value.err # "" THEN value
                 ELSE ffi_to_cpp_elements(value.st, ffi_value, len,
                                          [arr EXCEPT !.kids = Append(@, value.ret)],
                                          i + 1)
             fetched(elem_ptr) ==
                 IF elem_ptr.ret = NULLH
                 THEN Throw(elem_ptr.st, "ParseError",
                            <<"Failed to get array element at index: ", i>>)
                 ELSE converted(ffi_to_cpp(elem_ptr.st, elem_ptr.ret))
         IN  fetched(gbln_array_get(st, ffi_value, i))

ffi_to_cpp_object_manual_free(st, ffi_value) ==
    LET keys == gbln_object_keys(st, ffi_value)
    IN  IF keys.ret = NULLH /\ keys.count > 0
        THEN Throw(keys.st, "ParseError", <<"Failed to get object keys">>)
        ELSE LET managed_keys == ManagedKeys_ctor(keys.st, keys.ret, keys.count).w
                 left(body) ==
                     IF body.err # "" THEN body
                     ELSE [body EXCEPT !.st = ManagedKeys_dtor(@, managed_keys)]
             IN  left(ffi_to_cpp_entries(keys.st, ffi_value, managed_keys,
                                         VObject(<<>>, <<>>), 0))

\* case Object: the key list is held by a ManagedKeys for the rest of the
\* block, so its destructor runs on the return and on every throw after it
ffi_to_cpp_object(st, ffi_value) ==
    LET keys == gbln_object_keys(st, ffi_value)
    IN  IF keys.ret = NULLH /\ keys.count > 0
        THEN Throw(keys.st, "ParseError", <<"Failed to get object keys">>)
        ELSE LET managed_keys == ManagedKeys_ctor(keys.st, keys.ret, keys.count).w
                 left(body) == [body EXCEPT !.st = ManagedKeys_dtor(@, managed_keys)]
             IN  left(ffi_to_cpp_entries(keys.st, ffi_value, managed_keys,
                                         VObject(<<>>, <<>>), 0))

ffi_to_cpp(st, ffi_value) ==
    IF ffi_value = NULLH THEN Throw(st, "ParseError", <<"Null FFI value pointer">>)
    ELSE LET type == gbln_value_type(st, ffi_value)
    IN  CASE type = "Null" -> Return(st, VNull)
          [] type = "Bool" ->
                LET r == gbln_value_as_bool(st, ffi_value)
                IN  IF ~r.ok THEN Throw(r.st, "ParseError", <<"Failed to extract boolean value">>)
                    ELSE Return(r.st, VBool(r.num # ZERO64))
          [] type \in IntTags ->
                LET r == gbln_value_as_i64(st, ffi_value)
                IN  IF ~r.ok THEN Throw(r.st, "ParseError", <<"Failed to extract integer value">>)
                    ELSE Return(r.st, VInt(r.num))
          [] type = "F32" ->
                LET r == gbln_value_as_f32(st, ffi_value)
                IN  IF ~r.ok THEN Throw(r.st, "ParseError", <<"Failed to extract f32 value">>)
                    ELSE Return(r.st, VFloat(r.num))
          [] type = "F64" ->
                LET r == gbln_value_as_f64(st, ffi_value)
                IN  IF ~r.ok THEN Throw(r.st, "ParseError", <<"Failed to extract f64 value">>)
                    ELSE Return(r.st, VFloat(r.num))
          [] type = "Str" ->
                LET r == gbln_value_as_string(st, ffi_value)
                IN  IF ~r.ok \/ r.ptr = NULLH
                    THEN Throw(r.st, "ParseError", <<"Failed to extract string value">>)
                    ELSE Return(r.st, VStr(CStr(r.str)))
          [] type = "Object" -> ffi_to_cpp_object(st, ffi_value)
          [] type = "Array" ->
                ffi_to_cpp_elements(st, ffi_value, gbln_array_len(st, ffi_value),
                                    VArray(<<>>), 0)
          [] OTHER -> Throw(st, "ParseError", <<"Unknown GBLN value type: ", type>>)

(***************************************************************************)
(* The delegated engine operations: parsing, serialising, I/O.  A text or  *)
(* a file is modelled by the document it denotes: a foreign tree, or       *)
(* Invalid for a text the engine rejects.                                  *)
(***************************************************************************)
Doc(tag, num, str, cap, keys, kids) ==
    [tag |-> tag, num |-> num, str |-> str, cap |-> cap, keys |-> keys, kids |-> kids]
Invalid == Doc("Invalid", ZERO64, <<>>, 0, <<>>, <<>>)

\* the engine building the tree of a document in its heap
RECURSIVE Build(_, _, _), BuildKids(_, _, _, _)
BuildKids(heap, doc, i, acc) ==
    IF i > Len(doc.kids) THEN [heap |-> heap, kids |-> acc]
    ELSE LET k == Build(heap, doc.kids[i], 1)
         IN  BuildKids(k.heap, doc, i + 1, Append(acc, k.h))
Build(heap, doc, ins) ==
    LET ks == BuildKids(heap, doc, 1, <<>>)
        node == [Node(doc.tag, doc.num, doc.str, doc.cap) EXCEPT
                    !.keys = doc.keys, !.kids = ks.kids, !.ins = ins]
    IN  [heap |-> Append(ks.heap, node), h |-> Len(ks.heap) + 1]

\* the text of a foreign tree: everything the serialised form shows
RECURSIVE Render(_, _)
Render(heap, h) ==
    <<heap[h].tag, heap[h].num, heap[h].str, heap[h].cap, heap[h].keys,
      [i \in 1..Len(heap[h].kids) |-> Render(heap, heap[h].kids[i])]>>

\* gbln_parse and gbln_read_io: a result code and *out_value
ParseLike(st, op, doc, code) ==
    IF doc.tag = "Invalid"
    THEN Return(Failed(st, Call(op, NULLH, NULLH, ZERO64, <<>>, 0, code)), code) @@ [value |-> NULLH]
    ELSE IF Faulty(st)
    THEN Return(Ticked(st, Call(op, NULLH, NULLH, ZERO64, <<>>, 0, Ok)), Ok) @@ [value |-> NULLH]
    ELSE LET b == Build(st.heap, doc, 0)
         IN  Return([Ticked(st, Call(op, b.h, NULLH, ZERO64, <<>>, 0, Ok)) EXCEPT !.heap = b.heap], Ok)
                @@ [value |-> b.h]
gbln_parse(st, input) == ParseLike(st, "gbln_parse", input, ErrorUnexpectedEof)
gbln_read_io(st, path) == ParseLike(st, "gbln_read_io", path, ErrorIo)

\* gbln_to_string / gbln_to_string_pretty: a string owned by the caller
gbln_to_string(st, h) ==
    NewString(st, "gbln_to_string", h, <<"compact", Render(st.heap, h)>>)
gbln_to_string_pretty(st, h) ==
    NewString(st, "gbln_to_string_pretty", h, <<"pretty", Render(st.heap, h)>>)

\* gbln_write_io
gbln_write_io(st, h, config) ==
    IF Faulty(st)
    THEN Return(Failed(st, Call("gbln_write_io", h, config, ZERO64, <<>>, 0, ErrorIo)), ErrorIo)
    ELSE Return(Ticked(st, Call("gbln_write_io", h, config, ZERO64, <<>>, 0, Ok)), Ok)

(***************************************************************************)
(* Config (config.hpp)                                                     *)
(***************************************************************************)
Config(mini_mode, compress, compression_level, indent, strip_comments) ==
    [mini_mode |-> mini_mode, compress |-> compress,
     compression_level |-> compression_level, indent |-> indent,
     strip_comments |-> strip_comments]
DefaultConfig == Config(TRUE, TRUE, 6, 2, TRUE)

\* Config::io_default and Config::source_default: a default Config with some
\* fields assigned
Config_io_default ==
    [DefaultConfig EXCEPT !.mini_mode = TRUE, !.compress = TRUE,
                          !.compression_level = 6, !.strip_comments = TRUE]
Config_source_default ==
    [DefaultConfig EXCEPT !.mini_mode = FALSE, !.compress = FALSE,
                          !.indent = 2, !.strip_comments = FALSE]

Config_validate_off_by_one(config) ==
    IF config.compression_level < 0 \/ config.compression_level > 10
    THEN "ValidationError"
    ELSE IF config.indent < 0 \/ config.indent > 16
    THEN "ValidationError"
    ELSE ""

\* Config::validate: the exception thrown, "" when the configuration is valid
Config_validate(config) ==
    IF config.compression_level < 0 \/ config.compression_level > 9
    THEN "ValidationError"
    ELSE IF config.indent < 0 \/ config.indent > 16
    THEN "ValidationError"
    ELSE ""

\* the text of that exception: a fixed part, then the offending number
Config_validate_what(config) ==
    IF config.compression_level < 0 \/ config.compression_level > 9
    THEN <<"Compression level must be 0-9, got: ", config.compression_level>>
    ELSE <<"Indent must be 0-16, got: ", config.indent>>

(***************************************************************************)
(* The public entry points: parser.cpp, io.cpp, serialiser.cpp.            *)
(***************************************************************************)
\* the error branch shared by parse, read_io and write_io: fetch the last
\* error, copy it, free it, throw
throw_last_error_frees_first(st, kind, prefix, fallback) ==
    LET error_msg == gbln_last_error_message(gbln_value_free(st, NULLH))
        msg == IF error_msg.ret # NULLH
               THEN error_msg.st.strings[error_msg.ret].content
               ELSE fallback
        st2 == IF error_msg.ret # NULLH
               THEN gbln_string_free(error_msg.st, error_msg.ret)
               ELSE error_msg.st
    IN  Throw(st2, kind, <<prefix, msg>>)

throw_last_error(st, kind, prefix, fallback) ==
    LET error_msg == gbln_last_error_message(st)
        msg == IF error_msg.ret # NULLH
               THEN error_msg.st.strings[error_msg.ret].content
               ELSE fallback
        st2 == IF error_msg.ret # NULLH
               THEN gbln_string_free(error_msg.st, error_msg.ret)
               ELSE error_msg.st
    IN  Throw(st2, kind, <<prefix, msg>>)

\* after the engine call of parse / read_io: wrap the handle, convert, and
\* let the ManagedValue release it on the way out
convert_parsed(st, out_value, kind, nullmsg) ==
    IF out_value = NULLH THEN Throw(st, kind, <<nullmsg>>)
    ELSE LET managed == Managed_ctor(st, "value", out_value).w
             r == ffi_to_cpp(st, managed.ptr)
         IN  [r EXCEPT !.st = Managed_dtor(@, managed)]

parse(st, gbln_string) ==
    LET result == gbln_parse(st, gbln_string)
    IN  IF result.ret # Ok
        THEN throw_last_error(result.st, "ParseError", "", <<"Parse failed">>)
        ELSE convert_parsed(result.st, result.value, "ParseError",
                            "Parse returned null pointer")

read_io(st, path) ==
    LET result == gbln_read_io(st, path)
    IN  IF result.ret # Ok
        THEN throw_last_error(result.st, "IoError", "Failed to read I/O file",
                              <<"I/O read failed">>)
        ELSE convert_parsed(result.st, result.value, "IoError",
                            "I/O read returned null pointer for: ")

to_string(st, value, mini) ==
    LET serialised(managed, result_str) ==
            IF result_str.ret = NULLH
            THEN Throw(Managed_dtor(result_str.st, managed), "SerialiseError",
                       <<"Serialisation returned null pointer">>)
            ELSE LET managed_str == Managed_ctor(result_str.st, "string", result_str.ret).w
                     copy == result_str.st.strings[managed_str.ptr].content
                 IN  Return(Managed_dtor(Managed_dtor(result_str.st, managed_str), managed),
                            copy)
        wrapped(managed) ==
            IF managed.err # ""
            THEN Throw(managed.st, managed.err,
                       <<"Cannot create ManagedValue from null pointer">>)
            ELSE serialised(managed.w,
                            IF mini THEN gbln_to_string(managed.st, managed.w.ptr)
                            ELSE gbln_to_string_pretty(managed.st, managed.w.ptr))
        converted(ffi_value) ==
            IF ffi_value.err # "" THEN ffi_value
            ELSE wrapped(Managed_ctor(ffi_value.st, "value", ffi_value.ret))
    IN  converted(cpp_to_ffi(st, value))

to_string_pretty_compact_at_zero(st, value, indent) == to_string(st, value, indent = 0)

to_string_pretty(st, value, indent) == to_string(st, value, FALSE)

write_io_validates_late(st, value, path, config) ==
    LET written(result) ==
            IF result.ret # Ok
            THEN throw_last_error(result.st, "IoError",
                                  "Failed to write I/O file", <<"I/O write failed">>)
            ELSE Return(result.st, NULLH)
        left(done, managed_value, managed_config) ==
            [done EXCEPT !.st = Managed_dtor(Managed_dtor(@, managed_config),
                                             managed_value)]
        configured(managed_value, ffi_config) ==
            IF ffi_config.ret = NULLH
            THEN Throw(Managed_dtor(ffi_config.st, managed_value), "IoError",
                       <<"Failed to create configuration">>)
            ELSE LET managed_config == Managed_ctor(ffi_config.st, "config", ffi_config.ret).w
                 IN  left(written(gbln_write_io(ffi_config.st, managed_value.ptr,
                                                managed_config.ptr)),
                          managed_value, managed_config)
        wrapped(managed_value) ==
            IF managed_value.err # ""
            THEN Throw(managed_value.st, managed_value.err,
                       <<"Cannot create ManagedValue from null pointer">>)
            ELSE configured(managed_value.w, gbln_config_new(managed_value.st, config))
        converted(ffi_value) ==
            IF ffi_value.err # "" THEN ffi_value
            ELSE IF Config_validate(config) # ""
            THEN Throw(gbln_value_free(ffi_value.st, ffi_value.ret),
                       Config_validate(config), Config_validate_what(config))
            ELSE wrapped(Managed_ctor(ffi_value.st, "value", ffi_value.ret))
    IN  converted(cpp_to_ffi(st, value))

write_io(st, value, path, config) ==
    LET written(result) ==
            IF result.ret # Ok
            THEN throw_last_error(result.st, "IoError",
                                  "Failed to write I/O file", <<"I/O write failed">>)
            ELSE Return(result.st, NULLH)
        left(done, managed_value, managed_config) ==
            [done EXCEPT !.st = Managed_dtor(Managed_dtor(@, managed_config),
                                             managed_value)]
        configured(managed_value, ffi_config) ==
            IF ffi_config.ret = NULLH
            THEN Throw(Managed_dtor(ffi_config.st, managed_value), "IoError",
                       <<"Failed to create configuration">>)
            ELSE LET managed_config == Managed_ctor(ffi_config.st, "config", ffi_config.ret).w
                 IN  left(written(gbln_write_io(ffi_config.st, managed_value.ptr,
                                                managed_config.ptr)),
                          managed_value, managed_config)
        wrapped(managed_value) ==
            IF managed_value.err # ""
            THEN Throw(managed_value.st, managed_value.err,
                       <<"Cannot create ManagedValue from null pointer">>)
            ELSE configured(managed_value.w, gbln_config_new(managed_value.st, config))
        converted(ffi_value) ==
            IF ffi_value.err # "" THEN ffi_value
            ELSE wrapped(Managed_ctor(ffi_value.st, "value", ffi_value.ret))
    IN  IF Config_validate(config) # ""
        THEN Throw(st, Config_validate(config), Config_validate_what(config))
        ELSE converted(cpp_to_ffi(st, value))

(***************************************************************************)
(* The inputs drawn by the specifications.                                 *)
(***************************************************************************)
\* a failing foreign call: none, or the k-th fallible call
FaultSets == {{}} \cup {{k} : k \in 1..MaxFaultAt}

\* integers around every limit create_optimal_int compares with
Near(b) == {v \in {I64Add(b, k) : k \in (0 - Delta)..Delta} : InI64(v)}
IntInputs ==
    Near(ZERO64) \cup Near(U8_MAX) \cup Near(U16_MAX) \cup Near(U32_MAX)
    \cup Near(I8_MIN) \cup Near(I8_MAX) \cup Near(I16_MIN) \cup Near(I16_MAX)
    \cup Near(I32_MIN) \cup Near(I32_MAX) \cup Near(I64_MIN) \cup Near(I64_MAX)
    \cup {I64(200), I64(-5), I64(70000)}

\* bytes of every class the scan tells apart: NUL, ASCII, a continuation
\* byte, the leads of 2, 3 and 4 bytes, and a byte that is no lead
Bytes == {0, 65, 169, 195, 226, 240, 248}
RECURSIVE StringsUpTo(_)
StringsUpTo(n) ==
    IF n = 0 THEN {<<>>}
    ELSE LET shorter == StringsUpTo(n - 1)
         IN  shorter \cup {Append(t, b) : t \in shorter, b \in Bytes}
StrInputs ==
    StringsUpTo(MaxSmallLen)
    \cup {Repeat(<<65>>, n) : n \in 0..MaxChars}
    \cup {Repeat(<<195, 169>>, n) : n \in (MaxChars - 8)..MaxChars}
    \cup {Repeat(<<195, 248>>, n) : n \in (MaxChars - 8)..MaxChars}

NoOut == [ret |-> NULLH, err |-> "", msg |-> <<>>]
Outcome(r) == [ret |-> r.ret, err |-> r.err, msg |-> r.msg]
Arg(op, value) == [op |-> op, value |-> value, root |-> NULLH, config |-> <<>>]

(***************************************************************************)
(* SpecSel: the two type selectors applied to drawn inputs.                *)
(***************************************************************************)
InitSel ==
    /\ pc = "idle"
    /\ arg \in {Arg("select", VInt(n)) : n \in IntInputs}
               \cup {Arg("select", VStr(t)) : t \in StrInputs}
    /\ ffi \in {Engine(f) : f \in {{}, {1}}}
    /\ out = NoOut
    /\ wrappers = <<>>

CreateOptimalInt ==
    /\ pc = "idle"
    /\ arg.value.tag = "Int"
    /\ LET r == create_optimal_int(ffi, arg.value.num)
       IN  /\ ffi' = r.st
           /\ out' = Outcome(r)
    /\ pc' = "done"
    /\ UNCHANGED <<arg, wrappers>>

CreateOptimalString ==
    /\ pc = "idle"
    /\ arg.value.tag = "Str"
    /\ LET r == create_optimal_string(ffi, arg.value.str)
       IN  /\ ffi' = r.st
           /\ out' = Outcome(r)
    /\ pc' = "done"
    /\ UNCHANGED <<arg, wrappers>>

NextSel == CreateOptimalInt \/ CreateOptimalString
SpecSel == InitSel /\ [][NextSel]_vars

(***************************************************************************)
(* Spec: the conversions and the public entry points, each applied to a    *)
(* drawn value or document with a drawn failing foreign call.              *)
(***************************************************************************)
LongString == Repeat(<<65>>, 1025)      \* one character too many
NulString == <<65, 0, 66>>              \* "A\0B"
BadString == <<248>>                    \* a byte that is no lead byte

Leaves ==
    {VNull, VBool(TRUE), VBool(FALSE), VFloat(I64(1)),
     VInt(I64(200)), VInt(I64(-5)), VInt(I64(70000)), VInt(I64_MAX), VInt(I64_MIN),
     VStr(<<>>), VStr(<<65>>), VStr(<<195, 169, 65>>), VStr(NulString),
     VStr(BadString), VStr(LongString)}
CoreLeaves == {VNull, VInt(I64(-5)), VStr(<<65>>), VStr(BadString), VStr(NulString)}
FewLeaves == {VNull, VInt(I64(-5)), VStr(BadString)}

\* keys, and the pairs of keys in the order std::map keeps them
Keys == {<<97>>, <<98>>, <<97, 0, 49>>, <<97, 0, 50>>}
KeyPairs == {<<k1, k2>> \in Keys \X Keys : StrLt(k1, k2)}

Level1 ==
    {VArray(<<>>), VObject(<<>>, <<>>)}
    \cup {VArray(<<a>>) : a \in CoreLeaves}
    \cup {VArray(<<a, b>>) : a \in CoreLeaves, b \in CoreLeaves}
    \cup {VObject(<<k>>, <<a>>) : k \in Keys, a \in CoreLeaves}
    \cup {VObject(kk, <<a, b>>) : kk \in KeyPairs, a \in FewLeaves, b \in FewLeaves}

Mid ==
    {VArray(<<VStr(<<65>>)>>), VArray(<<VStr(BadString)>>), VArray(<<VStr(LongString)>>),
     VObject(<<<<97>>>>, <<VNull>>),
     VObject(<<<<97, 0, 49>>, <<97, 0, 50>>>>, <<VNull, VNull>>)}
Side == {VNull, VStr(<<65>>)}

Level2 ==
    {VArray(<<m>>) : m \in Mid}
    \cup {VArray(<<l, m>>) : l \in Side, m \in Mid}
    \cup {VArray(<<m, l>>) : l \in Side, m \in Mid}
    \cup {VObject(<<<<97>>>>, <<m>>) : m \in Mid}
    \cup {VObject(<<<<97>>, <<98>>>>, <<l, m>>) : l \in Side, m \in Mid}
    \cup {VArray(<<VObject(<<<<97>>>>, <<m>>)>>) : m \in Mid}

Values == Leaves \cup Level1 \cup Level2

Init ==
    /\ pc = "idle"
    /\ arg = Arg("none", VNull)
    /\ ffi = Engine({})
    /\ out = NoOut
    /\ wrappers = <<>>

\* the caller converts a value to a foreign tree
DoCppToFfi ==
    /\ pc = "idle"
    /\ \E v \in Values, f \in FaultSets :
          LET r == cpp_to_ffi(Engine(f), v)
          IN  /\ arg' = [Arg("cpp_to_ffi", v) EXCEPT !.root = r.ret]
              /\ ffi' = r.st
              /\ out' = Outcome(r)
    /\ pc' = "built"
    /\ UNCHANGED wrappers

\* the caller converts the tree it was given back to a value
DoFfiToCpp ==
    /\ pc = "built"
    /\ out.err = ""
    /\ \E f \in FaultSets : \E ns \in (IF f = {} THEN {FALSE} ELSE BOOLEAN) :
          LET r == ffi_to_cpp([ffi EXCEPT !.faults = FaultsFired(ffi) \cup {ffi.n + k : k \in f},
                                          !.nullStr = ns],
                              arg.root)
          IN  /\ ffi' = r.st
              /\ out' = Outcome(r)
    /\ pc' = "read"
    /\ UNCHANGED <<arg, wrappers>>

\* the caller releases the tree it owns
DoRelease ==
    /\ \/ pc = "built" /\ out.err = ""
       \/ pc = "read"
    /\ arg.root # NULLH
    /\ ffi' = gbln_value_free(ffi, arg.root)
    /\ pc' = "released"
    /\ UNCHANGED <<arg, out, wrappers>>

\* the documents a text or a file may denote
DocLeaf(tag, num) == Doc(tag, num, <<>>, 0, <<>>, <<>>)
DocLeaves ==
    {DocLeaf("Null", ZERO64), DocLeaf("Bool", I64(1)), DocLeaf("Bool", ZERO64),
     DocLeaf("I8", I64(-5)), DocLeaf("I16", I16_MIN), DocLeaf("I32", I32_MAX),
     DocLeaf("I64", I64_MIN), DocLeaf("U8", U8_MAX), DocLeaf("U16", U16_MAX),
     DocLeaf("U32", U32_MAX), DocLeaf("U64", I64_MAX), DocLeaf("U64", U64_MAX),
     DocLeaf("F32", I64(1)), DocLeaf("F64", I64(2)),
     Doc("Str", ZERO64, <<65, 66>>, 2, <<>>, <<>>),
     DocLeaf("Unknown", ZERO64)}
DocObject(keys, kids) == Doc("Object", ZERO64, <<>>, 0, keys, kids)
DocArray(kids) == Doc("Array", ZERO64, <<>>, 0, <<>>, kids)
DocLevel1 ==
    {DocObject(<<>>, <<>>), DocArray(<<>>)}
    \cup {DocObject(<<<<97>>>>, <<d>>) : d \in DocLeaves}
    \cup {DocArray(<<d>>) : d \in DocLeaves}
    \cup {DocObject(<<<<98>>, <<97>>>>, <<DocLeaf("U8", I64(1)), d>>) : d \in DocLeaves}
DocMid ==
    {DocObject(<<<<97>>>>, <<DocLeaf("U8", I64(7))>>),
     DocObject(<<<<97>>>>, <<DocLeaf("Unknown", ZERO64)>>),
     DocArray(<<DocLeaf("Bool", I64(1))>>),
     DocObject(<<>>, <<>>)}
DocLevel2 ==
    {DocObject(<<<<117>>>>, <<d>>) : d \in DocMid}
    \cup {DocArray(<<d, e>>) : d \in DocMid, e \in DocMid}
    \cup {DocObject(<<<<117>>>>, <<DocObject(<<<<118>>>>, <<d>>)>>) : d \in DocMid}
Docs == {Invalid} \cup DocLeaves \cup DocLevel1 \cup DocLevel2

Configs == {DefaultConfig, Config(FALSE, FALSE, 6, 2, FALSE),
            Config(TRUE, TRUE, 99, 2, TRUE), Config(TRUE, TRUE, 6, 17, TRUE),
            Config(TRUE, TRUE, -1, 2, TRUE), Config(TRUE, TRUE, 0, 0, TRUE),
            Config(TRUE, TRUE, 9, 16, TRUE)}

\* gbln::parse(text)
DoParse ==
    /\ pc = "idle"
    /\ \E d \in Docs, f \in FaultSets :
          LET r == parse(Engine(f), d)
          IN  /\ arg' = Arg("parse", d)
              /\ ffi' = r.st
              /\ out' = Outcome(r)
    /\ pc' = "done"
    /\ UNCHANGED wrappers

\* gbln::read_io(path)
DoReadIo ==
    /\ pc = "idle"
    /\ \E d \in Docs, f \in FaultSets :
          LET r == read_io(Engine(f), d)
          IN  /\ arg' = Arg("read_io", d)
              /\ ffi' = r.st
              /\ out' = Outcome(r)
    /\ pc' = "done"
    /\ UNCHANGED wrappers

\* gbln::to_string(value, mini)
DoToString ==
    /\ pc = "idle"
    /\ \E v \in Values, mini \in BOOLEAN, f \in FaultSets :
          LET r == to_string(Engine(f), v, mini)
          IN  /\ arg' = [Arg("to_string", v) EXCEPT !.config = [mini |-> mini]]
              /\ ffi' = r.st
              /\ out' = Outcome(r)
    /\ pc' = "done"
    /\ UNCHANGED wrappers

\* gbln::to_string_pretty(value, indent)
Indents == {0, 2, 7}
DoToStringPretty ==
    /\ pc = "idle"
    /\ \E v \in Values, indent \in Indents, f \in FaultSets :
          LET r == to_string_pretty(Engine(f), v, indent)
          IN  /\ arg' = [Arg("to_string_pretty", v) EXCEPT !.config = [indent |-> indent]]
              /\ ffi' = r.st
              /\ out' = Outcome(r)
    /\ pc' = "done"
    /\ UNCHANGED wrappers

\* gbln::write_io(value, path, config)
DoWriteIo ==
    /\ pc = "idle"
    /\ \E v \in Values, c \in Configs, f \in FaultSets :
          LET r == write_io(Engine(f), v, <<>>, c)
          IN  /\ arg' = [Arg("write_io", v) EXCEPT !.config = c]
              /\ ffi' = r.st
              /\ out' = Outcome(r)
    /\ pc' = "done"
    /\ UNCHANGED wrappers

\* configurations with both numbers around and far from their limits
ValidateInputs ==
    {Config(m, m, l, i, m) : m \in BOOLEAN,
                             l \in ((0 - Delta)..(9 + Delta)) \cup {99},
                             i \in (0 - Delta)..(16 + Delta)}
    \cup {DefaultConfig, Config_io_default, Config_source_default}

\* config.validate()
DoValidate ==
    /\ pc = "idle"
    /\ \E c \in ValidateInputs :
          /\ arg' = [Arg("validate", VNull) EXCEPT !.config = c]
          /\ out' = [ret |-> NULLH, err |-> Config_validate(c),
                     msg |-> IF Config_validate(c) # ""
                             THEN Config_validate_what(c) ELSE <<>>]
    /\ pc' = "done"
    /\ UNCHANGED <<ffi, wrappers>>

Next ==
    \/ DoCppToFfi
    \/ DoFfiToCpp
    \/ DoRelease
    \/ DoParse
    \/ DoReadIo
    \/ DoToString
    \/ DoToStringPretty
    \/ DoWriteIo
    \/ DoValidate
Spec == Init /\ [][Next]_vars

(***************************************************************************)
(* SpecHandle: scoped handles constructed, moved and destroyed in any      *)
(* order.  The engine starts holding a small tree, from which strings and  *)
(* key lists are obtained.                                                 *)
(***************************************************************************)
MaxRes == 2         \* foreign allocations attempted in one behaviour
Slots == {"a", "b", "c"}
Kinds == {"value", "string", "config", "keys"}

BaseTree ==
    VArray(<<VObject(<<<<97>>, <<98>>>>, <<VNull, VNull>>), VObject(<<>>, <<>>)>>)
BaseEngine == cpp_to_ffi(Engine({}), BaseTree).st
BaseObjects == {h \in 1..Len(BaseEngine.heap) : BaseEngine.heap[h].tag = "Object"}

Dead == [live |-> FALSE, w |-> Wrapper("value", NULLH, 0)]
Live(w) == [live |-> TRUE, w |-> w]

InitHandle ==
    /\ pc = "idle"
    /\ arg = Arg("none", VNull)
    /\ ffi = BaseEngine
    /\ out = NoOut
    /\ wrappers = [s \in Slots |-> Dead]

WithFault(st, fail) == [st EXCEPT !.faults = IF fail THEN {st.n + 1} ELSE {}]

\* the engine hands out a resource (or null) and a ManagedValue,
\* ManagedString or ManagedConfig is constructed from it
HConstruct ==
    /\ ffi.n - BaseEngine.n < MaxRes
    /\ \E s \in Slots, kind \in Kinds \ {"keys"}, fail \in BOOLEAN :
          /\ ~wrappers[s].live
          /\ LET st == WithFault(ffi, fail)
                 r == CASE kind = "value"  -> gbln_value_new_null(st)
                        [] kind = "string" -> gbln_to_string(st, 1)
                        [] kind = "config" -> gbln_config_new(st, DefaultConfig)
                 c == Managed_ctor(r.st, kind, r.ret)
             IN  /\ ffi' = c.st
                 /\ wrappers' = [wrappers EXCEPT ![s] = IF c.err = "" THEN Live(c.w) ELSE Dead]
                 /\ out' = [ret |-> r.ret, err |-> c.err, msg |-> <<kind, 0>>]
    /\ UNCHANGED <<pc, arg>>

\* the engine hands out a key list (or null) and its count and a ManagedKeys
\* is constructed from them
HConstructKeys ==
    /\ ffi.n - BaseEngine.n < MaxRes
    /\ \E s \in Slots, h \in BaseObjects, fail \in BOOLEAN :
          /\ ~wrappers[s].live
          /\ LET r == gbln_object_keys(WithFault(ffi, fail), h)
                 c == ManagedKeys_ctor(r.st, r.ret, r.count)
             IN  /\ ffi' = c.st
                 /\ wrappers' = [wrappers EXCEPT ![s] = IF c.err = "" THEN Live(c.w) ELSE Dead]
                 /\ out' = [ret |-> r.ret, err |-> c.err, msg |-> <<"keys", r.count>>]
    /\ UNCHANGED <<pc, arg>>

\* T dst(std::move(src))
HMoveConstruct ==
    /\ \E dst \in Slots, src \in Slots :
          /\ wrappers[src].live
          /\ ~wrappers[dst].live
          /\ LET m == IF wrappers[src].w.kind = "keys"
                      THEN ManagedKeys_move_ctor(wrappers[src].w)
                      ELSE Managed_move_ctor(wrappers[src].w)
             IN  wrappers' = [wrappers EXCEPT ![dst] = Live(m.this), ![src] = Live(m.other)]
    /\ UNCHANGED <<pc, arg, ffi, out>>

\* dst = std::move(src), dst and src of one type, possibly the same object
HMoveAssign ==
    /\ \E dst \in Slots, src \in Slots :
          /\ wrappers[src].live
          /\ wrappers[dst].live
          /\ wrappers[src].w.kind = wrappers[dst].w.kind
          /\ LET m == IF wrappers[dst].w.kind = "keys"
                      THEN ManagedKeys_move_assign(ffi, wrappers[dst].w, wrappers[src].w, dst = src)
                      ELSE Managed_move_assign(ffi, wrappers[dst].w, wrappers[src].w, dst = src)
             IN  /\ ffi' = m.st
                 /\ wrappers' = [wrappers EXCEPT ![src] = Live(m.other), ![dst] = Live(m.this)]
    /\ UNCHANGED <<pc, arg, out>>

\* a wrapper goes out of scope
HDestroy ==
    /\ \E s \in Slots :
          /\ wrappers[s].live
          /\ ffi' = IF wrappers[s].w.kind = "keys"
                    THEN ManagedKeys_dtor(ffi, wrappers[s].w)
                    ELSE Managed_dtor(ffi, wrappers[s].w)
          /\ wrappers' = [wrappers EXCEPT ![s] = Dead]
    /\ UNCHANGED <<pc, arg, out>>

NextHandle == HConstruct \/ HConstructKeys \/ HMoveConstruct \/ HMoveAssign \/ HDestroy
SpecHandle == InitHandle /\ [][NextHandle]_vars

(***************************************************************************)
(* Claims about the scoped handles (SpecHandle).                           *)
(***************************************************************************)
\* the live wrappers of a kind holding pointer p
Holders(kind, p) ==
    {s \in DOMAIN wrappers : wrappers[s].live /\ wrappers[s].w.kind = kind /\ wrappers[s].w.ptr = p}
\* the resources handed to wrappers by the engine: values created after the
\* base tree, strings, configurations, key lists
WrappedValues == (Len(BaseEngine.heap) + 1)..Len(ffi.heap)
Deallocators == {"gbln_value_free", "gbln_string_free", "gbln_config_free", "gbln_keys_free"}

\* C1: a resource held by a scoped handle is with exactly one live wrapper
\* and not yet released, or with none and released exactly once; no
\* deallocator is ever called with a null pointer (a moved-from wrapper
\* releases nothing); a key list is released with the count it came with.
C1_ReleasedExactlyOnce ==
    /\ \A h \in WrappedValues :
          Cardinality(Holders("value", h)) + ffi.heap[h].freed = 1
    /\ \A p \in 1..Len(ffi.strings) :
          Cardinality(Holders("string", p)) + ffi.strings[p].freed = 1
    /\ \A p \in 1..Len(ffi.configs) :
          Cardinality(Holders("config", p)) + ffi.configs[p].freed = 1
    /\ \A p \in 1..Len(ffi.keylists) :
          /\ Cardinality(Holders("keys", p)) + ffi.keylists[p].freed = 1
          /\ ffi.keylists[p].freed = 1 => ffi.keylists[p].freedWith = ffi.keylists[p].count
          /\ \A s \in Holders("keys", p) : wrappers[s].w.count = ffi.keylists[p].count
    /\ \A i \in 1..Len(ffi.log) :
          ffi.log[i].op \in Deallocators => ffi.log[i].h # NULLH
    /\ \A h \in 1..Len(BaseEngine.heap) : ffi.heap[h].freed = 0

\* a key list of two keys was moved into another wrapper and released when
\* that wrapper was destroyed, the moved-from wrapper still in scope
C1_Witness ==
    /\ \E p \in 1..Len(ffi.keylists) :
          /\ ffi.keylists[p].count = 2
          /\ ffi.keylists[p].freed = 1
          /\ ffi.keylists[p].freedWith = 2
    /\ \E s \in DOMAIN wrappers :
          wrappers[s].live /\ wrappers[s].w.kind = "keys" /\ wrappers[s].w.ptr = NULLH
    /\ \E h \in WrappedValues : ffi.heap[h].freed = 1

\* the latest construction of a scoped handle: out holds the pointer it was
\* given, the exception it threw, and <<kind, count>>
Constructed == out.msg # <<>>
ConstructedFromNull == Constructed /\ out.ret = NULLH
NoNullRelease == \A i \in 1..Len(ffi.log) : ffi.log[i].op \in Deallocators => ffi.log[i].h # NULLH

\* C14, as claimed: constructing a scoped handle of any of the four kinds
\* from a null pointer fails at construction, and no deallocator is invoked
\* for it.
C14_NullConstructionFails ==
    ConstructedFromNull => (out.err = "std::invalid_argument" /\ NoNullRelease)

\* C14, amended: a ManagedValue, ManagedString or ManagedConfig from a null
\* pointer, and a ManagedKeys from a null list with a count above 0, fail at
\* construction with std::invalid_argument; a ManagedKeys from a null list
\* with count 0 is constructed, as an empty handle.  A construction from a
\* pointer that is not null succeeds.  No deallocator is ever called with
\* a null pointer, so none runs for a failed construction or for the empty
\* handle.
C14_NullConstructionFails_Amended ==
    /\ ConstructedFromNull =>
          IF out.msg[1] = "keys" /\ out.msg[2] = 0
          THEN out.err = ""
          ELSE out.err = "std::invalid_argument"
    /\ (Constructed /\ out.ret # NULLH) => out.err = ""
    /\ NoNullRelease

\* a ManagedConfig from null failed, and by now other handles were released
C14_Witness ==
    /\ ConstructedFromNull
    /\ out.msg[1] = "config"
    /\ out.err = "std::invalid_argument"
    /\ \E i \in 1..Len(ffi.log) : ffi.log[i].op \in Deallocators

\* the empty handle: a null key list with count 0 was wrapped and destroyed
C14_WitnessEmptyKeys ==
    /\ ConstructedFromNull
    /\ out.msg[1] = "keys" /\ out.msg[2] = 0
    /\ out.err = ""
    /\ \A s \in Slots : ~wrappers[s].live

(***************************************************************************)
(* Claims about the type selectors (SpecSel).                              *)
(***************************************************************************)
IntRange(tag) ==
    CASE tag = "U8"  -> [lo |-> ZERO64,  hi |-> U8_MAX]
      [] tag = "U16" -> [lo |-> ZERO64,  hi |-> U16_MAX]
      [] tag = "U32" -> [lo |-> ZERO64,  hi |-> U32_MAX]
      [] tag = "U64" -> [lo |-> ZERO64,  hi |-> U64_MAX]
      [] tag = "I8"  -> [lo |-> I8_MIN,  hi |-> I8_MAX]
      [] tag = "I16" -> [lo |-> I16_MIN, hi |-> I16_MAX]
      [] tag = "I32" -> [lo |-> I32_MIN, hi |-> I32_MAX]
      [] tag = "I64" -> [lo |-> I64_MIN, hi |-> I64_MAX]
Fits(tag, n) == I64Le(IntRange(tag).lo, n) /\ I64Le(n, IntRange(tag).hi)
FirstFit(order, n) ==
    order[CHOOSE i \in 1..Len(order) :
            Fits(order[i], n) /\ \A j \in 1..(i - 1) : ~Fits(order[j], n)]
ExpectedIntTag(n) ==
    IF I64Le(ZERO64, n) THEN FirstFit(<<"U8", "U16", "U32", "U64">>, n)
    ELSE FirstFit(<<"I8", "I16", "I32", "I64">>, n)
ConstructorOf(tag) ==
    CASE tag = "U8"  -> "gbln_value_new_u8"
      [] tag = "U16" -> "gbln_value_new_u16"
      [] tag = "U32" -> "gbln_value_new_u32"
      [] tag = "U64" -> "gbln_value_new_u64"
      [] tag = "I8"  -> "gbln_value_new_i8"
      [] tag = "I16" -> "gbln_value_new_i16"
      [] tag = "I32" -> "gbln_value_new_i32"
      [] tag = "I64" -> "gbln_value_new_i64"

IntSelected == pc = "done" /\ arg.value.tag = "Int"
StrSelected == pc = "done" /\ arg.value.tag = "Str"

\* C8: create_optimal_int makes exactly one constructor call, that of the
\* first of U8, U16, U32, U64 whose range holds n when n >= 0 and of the
\* first of I8, I16, I32, I64 whose range holds n when n < 0; so 200 -> U8,
\* -5 -> I8, 70000 -> U32, and a non-negative n never gets a signed tag.
C8_OptimalIntTag ==
    IntSelected =>
        LET n == arg.value.num
        IN  /\ Len(ffi.log) = 1
            /\ ffi.log[1].op = ConstructorOf(ExpectedIntTag(n))
            /\ (n = I64(200)   => ffi.log[1].op = "gbln_value_new_u8")
            /\ (n = I64(-5)    => ffi.log[1].op = "gbln_value_new_i8")
            /\ (n = I64(70000) => ffi.log[1].op = "gbln_value_new_u32")
            /\ (I64Le(ZERO64, n) =>
                    ffi.log[1].op \in {ConstructorOf(t) : t \in {"U8", "U16", "U32", "U64"}})

C8_Witness ==
    /\ IntSelected
    /\ arg.value.num = I64(70000)
    /\ ffi.log[1].op = "gbln_value_new_u32"

\* C9: the narrowing cast of create_optimal_int does not wrap: the number
\* handed to the constructor is n, and the stored integer read back through
\* gbln_value_as_i64 is n.
C9_IntLossless ==
    IntSelected =>
        /\ ffi.log[1].num = arg.value.num
        /\ out.ret # NULLH =>
              LET r == gbln_value_as_i64([ffi EXCEPT !.faults = {}], out.ret)
              IN  r.ok /\ r.num = arg.value.num

C9_Witness ==
    /\ IntSelected
    /\ arg.value.num = I64Add(I16_MIN, -1)
    /\ out.ret # NULLH
    /\ ffi.heap[out.ret].tag = "I32"
    /\ gbln_value_as_i64(ffi, out.ret).num = I64Add(I16_MIN, -1)

Buckets == {2^k : k \in 1..10}
SmallestBucket(c) ==
    CHOOSE b \in Buckets : b >= c /\ \A b2 \in Buckets : b2 >= c => b <= b2
Scanned == ScanLoop(arg.value.str, ScanStart)

\* C10: for a string of c <= 1024 characters create_optimal_string calls the
\* string constructor once, with the smallest bucket b >= c; for c > 1024 it
\* throws the string-too-long error and never calls the constructor.
C10_OptimalStringBucket ==
    (StrSelected /\ ~Scanned.bad) =>
        IF Scanned.char_count <= 1024
        THEN /\ out.err = ""
             /\ Len(ffi.log) = 1
             /\ ffi.log[1].op = "gbln_value_new_str"
             /\ ffi.log[1].cap = SmallestBucket(Scanned.char_count)
             /\ (Scanned.char_count = 0 => ffi.log[1].cap = 2)
             /\ (Scanned.char_count = 3 => ffi.log[1].cap = 4)
        ELSE /\ out.err = "SerialiseError"
             /\ out.msg[1] = "String too long ("
             /\ ffi.log = <<>>

C10_Witness ==
    /\ StrSelected
    /\ arg.value.str = <<65, 65, 65>>
    /\ ffi.log[1].cap = 4

C10_WitnessTooLong ==
    /\ StrSelected
    /\ Scanned.char_count = 1025
    /\ out.err = "SerialiseError"

\* the number of bytes a character takes, by the bit pattern of its lead
\* byte: 0xxxxxxx 1, 110xxxxx 2, 1110xxxx 3, 11110xxx 4, anything else none
LeadLength(b) ==
    IF b \in 0..127 THEN 1
    ELSE IF b \in 192..223 THEN 2
    ELSE IF b \in 224..239 THEN 3
    ELSE IF b \in 240..247 THEN 4
    ELSE 0
\* the characters of a byte string counted from offset at, k characters at
\* most in one go
RECURSIVE CountSome(_, _, _)
CountSome(str, w, k) ==
    IF k = 0 \/ w.invalid \/ w.at >= Len(str) THEN w
    ELSE IF LeadLength(str[w.at + 1]) = 0 THEN [w EXCEPT !.invalid = TRUE]
    ELSE CountSome(str, [at |-> w.at + LeadLength(str[w.at + 1]),
                         chars |-> w.chars + 1, invalid |-> FALSE], k - 1)
RECURSIVE CountFrom(_, _)
CountFrom(str, w) ==
    IF w.invalid \/ w.at >= Len(str) THEN w
    ELSE CountFrom(str, CountSome(str, w, 32))
Counted == CountFrom(arg.value.str, [at |-> 0, chars |-> 0, invalid |-> FALSE])

\* C11: create_optimal_string counts characters by their lead bytes from
\* offset 0 (1, 2, 3 or 4 bytes a character), not bytes: the bucket, and the
\* count in the too-long message, are those of the character count; a byte
\* 10xxxxxx or 11111xxx at a lead position gives the invalid-encoding error
\* and no foreign call is made.
C11_CountsCharacters ==
    StrSelected =>
        IF Counted.invalid
        THEN /\ out.err = "SerialiseError"
             /\ out.msg = <<"Invalid UTF-8 sequence in string">>
             /\ out.ret = NULLH
             /\ ffi.log = <<>>
        ELSE IF Counted.chars <= 1024
        THEN /\ out.err = ""
             /\ Len(ffi.log) = 1
             /\ ffi.log[1].op = "gbln_value_new_str"
             /\ ffi.log[1].cap = SmallestBucket(Counted.chars)
        ELSE /\ out.err = "SerialiseError"
             /\ out.msg = <<"String too long (", Counted.chars, " characters, max 1024)">>
             /\ ffi.log = <<>>

\* 1024 characters of two bytes each, 2048 bytes, fit the largest bucket
C11_Witness ==
    /\ StrSelected
    /\ Len(arg.value.str) = 2048
    /\ out.err = ""
    /\ ffi.log[1].cap = 1024

\* a continuation byte where a lead byte is expected
C11_WitnessInvalid ==
    /\ StrSelected
    /\ arg.value.str = <<65, 169>>
    /\ out.err = "SerialiseError"

\* the string with every continuation byte 10xxxxxx replaced by 0xF8, a byte
\* that is neither a lead nor a continuation byte
Discontinued(str) == [i \in 1..Len(str) |-> IF str[i] \in 128..191 THEN 248 ELSE str[i]]

\* C24: create_optimal_string looks at lead bytes only.  Replacing every
\* continuation byte by a byte that continues nothing changes neither the
\* error nor the bucket; a string that is one multi-byte lead and the bytes
\* after it, fewer than the lead announces included, is one character; and
\* a last character that runs past the end is counted and is no error.
C24_LeadBytesOnly ==
    StrSelected =>
        LET str == arg.value.str
            other == create_optimal_string(Engine(ffi.faults), Discontinued(str))
        IN  /\ out.err = other.err
            /\ out.msg = other.msg
            /\ Len(ffi.log) = Len(other.st.log)
            /\ ffi.log # <<>> => ffi.log[1].cap = other.st.log[1].cap
            /\ (Len(str) >= 1 /\ LeadLength(str[1]) >= 2 /\ Len(str) <= LeadLength(str[1])) =>
                  /\ out.err = ""
                  /\ Len(ffi.log) = 1
                  /\ ffi.log[1].cap = 2
            /\ (~Counted.invalid /\ Counted.at > Len(str) /\ Counted.chars <= 1024) =>
                  /\ out.err = ""
                  /\ ffi.log[1].cap = SmallestBucket(Counted.chars)

\* a 2-byte lead followed by a byte that continues nothing, 1024 times: 2048
\* bytes, 1024 characters, the largest bucket
C24_Witness ==
    /\ StrSelected
    /\ arg.value.str = Repeat(<<195, 248>>, 1024)
    /\ out.err = ""
    /\ ffi.log[1].cap = 1024

\* a 4-byte lead with two bytes after it, an ASCII byte and a lead: one
\* character, no error
C24_WitnessPastEnd ==
    /\ StrSelected
    /\ arg.value.str = <<240, 65, 195>>
    /\ out.err = ""
    /\ ffi.log[1].cap = 2

(***************************************************************************)
(* Claims about the conversions and the entry points (Spec).               *)
(***************************************************************************)
Handles == 1..Len(ffi.heap)
LogIdx == 1..Len(ffi.log)
\* the calls of gbln_value_free made on handle h
FreeCalls(h) == {i \in LogIdx : ffi.log[i].op = "gbln_value_free" /\ ffi.log[i].h = h}
\* the insert and push calls that reported an error
Rejections ==
    {i \in LogIdx : /\ ffi.log[i].op \in {"gbln_object_insert", "gbln_array_push"}
                    /\ ffi.log[i].ret # Ok}
Converted == pc = "built"

\* C2: when gbln_object_insert or gbln_array_push reports an error during
\* cpp_to_ffi, the next two foreign calls free the rejected child and the
\* container being built, SerialiseError follows, and neither handle is
\* freed another time.
C2_RejectedInsertFreesBoth ==
    Converted =>
        \A i \in Rejections :
            LET child == ffi.log[i].h2
                container == ffi.log[i].h
            IN  /\ Len(ffi.log) = i + 2
                /\ ffi.log[i + 1].op = "gbln_value_free" /\ ffi.log[i + 1].h = child
                /\ ffi.log[i + 2].op = "gbln_value_free" /\ ffi.log[i + 2].h = container
                /\ out.err = "SerialiseError"
                /\ FreeCalls(container) = {i + 2}
                /\ ffi.heap[container].freed = 1
                /\ child # NULLH => FreeCalls(child) = {i + 1} /\ ffi.heap[child].freed = 1

C2_Witness ==
    /\ Converted
    /\ \E i \in Rejections :
          /\ ffi.log[i].op = "gbln_object_insert"
          /\ ffi.log[i].ret = ErrorDuplicateKey
          /\ ffi.log[i].h2 # NULLH
          /\ ffi.heap[ffi.log[i].h2].freed = 1
          /\ ffi.heap[ffi.log[i].h].freed = 1

\* C3, as claimed: when cpp_to_ffi fails, every foreign value created during
\* the call has been released exactly once by the time the caller sees the
\* error.
C3_NoLeakOnFailure ==
    (Converted /\ out.err # "") => \A h \in Handles : ffi.heap[h].freed = 1

\* C4: when cpp_to_ffi returns normally nothing was freed, every value but
\* the root is held by exactly one container, the root by none, and one
\* release of the root by the caller releases every value once.  At no time
\* is a value held by two containers, freed twice, or freed by the C++ side
\* while a container holds it.
C4_SingleOwner ==
    /\ \A h \in Handles :
          /\ ffi.heap[h].ins <= 1
          /\ ffi.heap[h].freed <= 1
          /\ FreeCalls(h) # {} => ffi.heap[h].ins = 0
    /\ (Converted /\ out.err = "") =>
          /\ \A i \in LogIdx : ffi.log[i].op # "gbln_value_free"
          /\ \A h \in Handles :
                /\ ffi.heap[h].freed = 0
                /\ ffi.heap[h].ins = (IF h = out.ret THEN 0 ELSE 1)
                /\ h # out.ret =>
                      Cardinality({<<c, j>> \in Handles \X (1..Len(ffi.heap)) :
                                      /\ j <= Len(ffi.heap[c].kids)
                                      /\ ffi.heap[c].kids[j] = h}) = 1
    /\ pc = "released" => \A h \in Handles : ffi.heap[h].freed = 1

C4_Witness ==
    /\ Converted
    /\ out.err = ""
    /\ out.ret # NULLH
    /\ ffi.heap[out.ret].tag = "Object"
    /\ Len(ffi.heap) >= 3
    /\ \E h \in Handles : h # out.ret /\ Len(ffi.heap[h].kids) > 0

\* C5: on every return of ffi_to_cpp, normal or by exception, every key list
\* it acquired (also a list of count 0) has been released exactly once, by
\* gbln_keys_free with the count the list came with.
KeysFreeCalls(k) == {i \in LogIdx : ffi.log[i].op = "gbln_keys_free" /\ ffi.log[i].h = k}
C5_KeyListsReleased ==
    \A k \in 1..Len(ffi.keylists) :
        /\ ffi.keylists[k].freed = 1
        /\ ffi.keylists[k].freedWith = ffi.keylists[k].count
        /\ Cardinality(KeysFreeCalls(k)) = 1
        /\ \A i \in KeysFreeCalls(k) : ffi.log[i].cap = ffi.keylists[k].count

C5_Witness ==
    /\ pc = "read"
    /\ out.err = "ParseError"
    /\ Len(ffi.keylists) = 2
    /\ \A k \in 1..2 : ffi.keylists[k].freed = 1

C5_WitnessEmpty ==
    /\ pc = "read"
    /\ out.err = ""
    /\ Len(ffi.keylists) = 1
    /\ ffi.keylists[1].count = 0
    /\ ffi.keylists[1].freed = 1

\* C6, as claimed: when an entry point returns or throws, every foreign
\* resource acquired during the call (values, strings, configurations, key
\* lists) has been released exactly once.
EntryDone == pc = "done"
C6_EntryPointsReleaseAll ==
    EntryDone =>
        /\ \A h \in Handles : ffi.heap[h].freed = 1
        /\ \A i \in 1..Len(ffi.strings) : ffi.strings[i].freed = 1
        /\ \A i \in 1..Len(ffi.configs) : ffi.configs[i].freed = 1
        /\ \A i \in 1..Len(ffi.keylists) : ffi.keylists[i].freed = 1

\* C7, as claimed: with no foreign call failing, cpp_to_ffi followed by
\* ffi_to_cpp gives back a value equal to the one converted.
C7_RoundTrip ==
    (pc = "read" /\ FaultsFired(ffi) = {}) => (out.err = "" /\ out.ret = arg.value)

\* the foreign tree read by ffi_to_cpp: the one the caller passed, or the one
\* the engine built for parse / read_io (NULLH when there is none)
WasRead == pc = "read" \/ (pc = "done" /\ arg.op \in {"parse", "read_io"})
ReadRoot == IF pc = "read" THEN arg.root ELSE ffi.log[1].h

\* every tag of the tree under h is one of the fifteen known tags
RECURSIVE KnownTags(_, _)
KnownTags(heap, h) ==
    /\ heap[h].tag \in ValueTags
    /\ \A i \in 1..Len(heap[h].kids) : KnownTags(heap, heap[h].kids[i])

\* v is the value the tag of each node of the tree under h fixes
RECURSIVE Translates(_, _, _)
Translates(heap, h, v) ==
    LET n == heap[h]
    IN  CASE n.tag = "Null" -> v = VNull
          [] n.tag = "Bool" -> v = VBool(n.num # ZERO64)
          [] n.tag \in IntTags -> v = VInt(CastI64(n.num))
          [] n.tag \in {"F32", "F64"} -> v = VFloat(n.num)
          [] n.tag = "Str" -> v = VStr(n.str)
          [] n.tag = "Object" ->
                /\ v.tag = "Object" /\ v.num = ZERO64 /\ v.str = <<>>
                /\ Len(v.keys) = Len(n.keys) /\ Len(v.kids) = Len(n.keys)
                /\ {v.keys[i] : i \in 1..Len(v.keys)} = {n.keys[i] : i \in 1..Len(n.keys)}
                /\ \A i \in 1..Len(v.keys), j \in 1..Len(n.keys) :
                        v.keys[i] = n.keys[j] => Translates(heap, n.kids[j], v.kids[i])
          [] n.tag = "Array" ->
                /\ v.tag = "Array" /\ v.num = ZERO64 /\ v.str = <<>> /\ v.keys = <<>>
                /\ Len(v.kids) = Len(n.kids)
                /\ \A i \in 1..Len(n.kids) : Translates(heap, n.kids[i], v.kids[i])
          [] OTHER -> FALSE

\* C12: when no foreign call fails and every tag of the tree is known,
\* ffi_to_cpp returns, and returns the variant the tag fixes: Null, Bool, the
\* Integer read through gbln_value_as_i64 for the eight integer tags, Float
\* for F32 and F64, the String copy, the Object with exactly the enumerated
\* keys and the converted children, the Array of the converted elements in
\* index order.
C12_VariantByTag ==
    (WasRead /\ FaultsFired(ffi) = {} /\ ReadRoot # NULLH /\ KnownTags(ffi.heap, ReadRoot)) =>
        /\ out.err = ""
        /\ Translates(ffi.heap, ReadRoot, out.ret)

\* an object of two keys holding an unsigned and a 32-bit float was read
C12_Witness ==
    /\ pc = "done" /\ arg.op = "parse"
    /\ out.err = ""
    /\ FaultsFired(ffi) = {}
    /\ ffi.heap[ReadRoot].tag = "Object"
    /\ Len(out.ret.keys) = 2
    /\ out.ret.kids[1].tag = "Float"
    /\ out.ret.kids[2] = VInt(I64(1))

\* an array of two different elements was read in order
C12_WitnessArray ==
    /\ pc = "read"
    /\ out.err = ""
    /\ out.ret.tag = "Array"
    /\ Len(out.ret.kids) = 2
    /\ out.ret.kids[1] = VNull /\ out.ret.kids[2] = VStr(<<65>>)

\* the accessor calls that reported a failure: a cleared ok flag, a null
\* string pointer, a null key list with a count above 0, a null child
ScalarAccessors ==
    {"gbln_value_as_bool", "gbln_value_as_i64", "gbln_value_as_f32", "gbln_value_as_f64"}
AccessorFailures ==
    {i \in LogIdx :
        \/ ffi.log[i].op \in ScalarAccessors /\ ffi.log[i].ret = 0
        \/ ffi.log[i].op = "gbln_value_as_string"
              /\ (ffi.log[i].cap = 0 \/ ffi.log[i].ret = NULLH)
        \/ ffi.log[i].op = "gbln_object_keys"
              /\ ffi.log[i].ret = NULLH /\ ffi.log[i].cap > 0
        \/ ffi.log[i].op \in {"gbln_object_get", "gbln_array_get"}
              /\ ffi.log[i].ret = NULLH}
Releases == {"gbln_keys_free", "gbln_value_free", "gbln_string_free", "gbln_config_free"}

\* C13: when ffi_to_cpp is given a null handle, or an accessor at any depth
\* reports a failure, or the tree holds a tag that is none of the fifteen,
\* the call throws ParseError and returns no value; after the failing
\* accessor no level of the recursion reads anything more (only releases
\* follow).
C13_FailsAtomically ==
    /\ (pc = "read" /\ ReadRoot = NULLH) => (out.err = "ParseError" /\ out.ret = NULLH)
    /\ (WasRead /\ ReadRoot # NULLH /\ ~KnownTags(ffi.heap, ReadRoot)) =>
          (out.err = "ParseError" /\ out.ret = NULLH)
    /\ WasRead =>
          \A i \in AccessorFailures :
              /\ out.err = "ParseError"
              /\ out.ret = NULLH
              /\ \A j \in LogIdx : j > i => ffi.log[j].op \in Releases

\* a string two levels down gave a null pointer with the ok flag set, after
\* a sibling had been converted; ParseError reached the caller
C13_Witness ==
    /\ pc = "read"
    /\ out.err = "ParseError"
    /\ out.ret = NULLH
    /\ \E i \in AccessorFailures :
          /\ ffi.log[i].op = "gbln_value_as_string"
          /\ ffi.log[i].cap = 1
          /\ ffi.heap[ReadRoot].kids # <<>>
          /\ ffi.log[i].h \notin {ffi.heap[ReadRoot].kids[k] : k \in 1..Len(ffi.heap[ReadRoot].kids)}
          /\ \E j \in 1..(i - 1) : ffi.log[j].op = "gbln_array_get" /\ ffi.log[j].ret # NULLH

\* a tag that is none of the fifteen, inside an object
C13_WitnessUnknownTag ==
    /\ pc = "done" /\ arg.op = "read_io"
    /\ FaultsFired(ffi) = {}
    /\ ReadRoot # NULLH
    /\ ffi.heap[ReadRoot].tag = "Object"
    /\ out.err = "ParseError"
    /\ out.msg[1] = "Unknown GBLN value type: "

\* the exception classes of exceptions.hpp that the entry points declare
TypedErrors == {"ParseError", "SerialiseError", "IoError", "ValidationError"}

\* C15, as claimed: an entry point returns a result, or throws exactly one
\* exception of the typed taxonomy carrying a message and returns nothing,
\* whatever the foreign engine does.
C15_TypedErrorOrResult ==
    EntryDone =>
        \/ out.err = ""
        \/ /\ out.err \in TypedErrors
           /\ out.msg # <<>>
           /\ out.ret = NULLH

\* the foreign operations that return a result code, and their calls that
\* returned another code than Ok.  Up to the first such call every logged
\* call is a counted one, so the call at index i is the i-th call and the
\* last-error text it leaves is <<"error of call", i>>.
CodeOps == {"gbln_parse", "gbln_read_io", "gbln_write_io", "gbln_object_insert", "gbln_array_push"}
CodeFailures == {i \in LogIdx : ffi.log[i].op \in CodeOps /\ ffi.log[i].ret # Ok}
Fetches == {j \in LogIdx : ffi.log[j].op = "gbln_last_error_message"}
\* the exception text is one of the three built around an engine message,
\* and the engine message in it is text
Carries(text) ==
    /\ Len(out.msg) = 2
    /\ out.msg[1] \in {"", "Failed to read I/O file", "Failed to write I/O file"}
    /\ out.msg[2] = text

\* C16, as claimed: after any call of gbln_parse, gbln_read_io,
\* gbln_write_io, gbln_object_insert or gbln_array_push that returns a code
\* other than Ok, the last-error message is fetched, and the typed error
\* raised carries the message the failing call left.
C16_LastErrorFetched ==
    (Converted \/ EntryDone) =>
        \A i \in CodeFailures :
            /\ out.err \in TypedErrors
            /\ \E j \in Fetches : j > i
            /\ (\A j \in Fetches : ffi.log[j].ret # NULLH) =>
                    Carries(<<"error of call", i>>)

\* C17: where the last-error message is read after a call that returned a
\* code other than Ok, the read is the very next foreign call, the copy is
\* taken before the message is freed, and the message in the raised error is
\* the one that failing call left.
C17_ErrorReadAtOnce ==
    (Converted \/ EntryDone) =>
        \A i \in CodeFailures : \A j \in Fetches :
            /\ j = i + 1
            /\ ffi.log[j].ret # NULLH =>
                  /\ Carries(<<"error of call", i>>)
                  /\ ffi.log[j + 1].op = "gbln_string_free"
                  /\ ffi.log[j + 1].h = ffi.log[j].ret

\* gbln_write_io failed after a tree and a configuration had been built, and
\* IoError carries its message
C17_Witness ==
    /\ EntryDone
    /\ arg.op = "write_io"
    /\ out.err = "IoError"
    /\ \E i \in CodeFailures :
          /\ i > 2
          /\ ffi.log[i].op = "gbln_write_io"
          /\ (i + 1) \in Fetches
          /\ Carries(<<"error of call", i>>)

\* C18: write_io called with a compression level outside 0..9 or an indent
\* outside 0..16 ends in ValidationError with the text of Config::validate,
\* and the engine has not been called: no handle exists, nothing is logged.
OutOfRange(config) ==
    \/ config.compression_level \notin 0..9
    \/ config.indent \notin 0..16
C18_ConfigRejectedFirst ==
    (EntryDone /\ arg.op = "write_io" /\ OutOfRange(arg.config)) =>
        /\ out.err = "ValidationError"
        /\ out.msg \in {<<"Compression level must be 0-9, got: ", arg.config.compression_level>>,
                        <<"Indent must be 0-16, got: ", arg.config.indent>>}
        /\ ffi.log = <<>>
        /\ ffi.n = 0
        /\ Handles = {}

\* an object with a member, an indent of 17: rejected before the tree is built
C18_Witness ==
    /\ EntryDone
    /\ arg.op = "write_io"
    /\ arg.value.tag = "Object"
    /\ Len(arg.value.kids) > 0
    /\ arg.config.indent = 17
    /\ out.err = "ValidationError"
    /\ ffi.log = <<>>

\* C19: Config::validate raises ValidationError exactly when the compression
\* level is outside 0..9 or the indent is outside 0..16, whatever the other
\* fields hold; a default Config, Config::io_default() and
\* Config::source_default() pass.
Validated == EntryDone /\ arg.op = "validate"
C19_ValidateRanges ==
    Validated =>
        /\ out.err \in {"", "ValidationError"}
        /\ out.err = "ValidationError" <=> OutOfRange(arg.config)
        /\ (\/ arg.config = DefaultConfig
            \/ arg.config = [mini_mode |-> TRUE, compress |-> TRUE,
                             compression_level |-> 6, indent |-> 2,
                             strip_comments |-> TRUE]
            \/ arg.config = [mini_mode |-> FALSE, compress |-> FALSE,
                             compression_level |-> 6, indent |-> 2,
                             strip_comments |-> FALSE]) => out.err = ""

\* a compression level of 10 with an indent in range is rejected
C19_Witness ==
    /\ Validated
    /\ arg.config.compression_level = 10
    /\ arg.config.indent = 16
    /\ out.err = "ValidationError"

\* Config::source_default() passes
C19_WitnessSourceDefault ==
    /\ Validated
    /\ arg.config = Config_source_default
    /\ ~arg.config.mini_mode
    /\ out.err = ""

\* the compression level 99 of the error-handling example is rejected
C19_WitnessExample ==
    /\ Validated
    /\ arg.config = [DefaultConfig EXCEPT !.compression_level = 99]
    /\ out.err = "ValidationError"
    /\ out.msg = <<"Compression level must be 0-9, got: ", 99>>

(***************************************************************************)
(* SpecThreads: two threads of one process, each calling parse or read_io  *)
(* once.  The engine and its last-error state are shared by the threads;   *)
(* every foreign call is one step.  The caller either wraps each entry     *)
(* point in one mutex of its own (arg.mutex) or calls without one.         *)
(***************************************************************************)
Threads == {1, 2}
ThreadDocs == {Invalid, DocLeaf("Bool", I64(1))}
NoLocal == [code |-> Ok, out_value |-> NULLH, error_msg |-> NULLH, call |-> 0]

InitThreads ==
    /\ pc = [t \in Threads |-> "idle"]
    /\ arg \in {[op |-> "threads", mutex |-> m,
                  entry |-> [t \in Threads |-> IF t = 1 THEN "parse" ELSE e],
                  doc |-> [t \in Threads |-> IF t = 1 THEN d1 ELSE d2]] :
                     m \in BOOLEAN, e \in {"parse", "read_io"},
                     d1 \in ThreadDocs, d2 \in ThreadDocs}
    /\ ffi \in {Engine(f) : f \in FaultSets}
    /\ out = [t \in Threads |-> NoOut]
    /\ wrappers = [holder |-> 0, local |-> [t \in Threads |-> NoLocal]]

\* the caller takes its mutex before entering the library
ThreadLock(t) ==
    /\ arg.mutex
    /\ pc[t] = "idle"
    /\ wrappers.holder = 0
    /\ wrappers' = [wrappers EXCEPT !.holder = t]
    /\ pc' = [pc EXCEPT ![t] = "entered"]
    /\ UNCHANGED <<arg, ffi, out>>

\* GblnErrorCode err = gbln_parse(...) / gbln_read_io(...)
ThreadCall(t) ==
    /\ pc[t] = IF arg.mutex THEN "entered" ELSE "idle"
    /\ LET called(result) ==
               /\ ffi' = result.st
               /\ wrappers' = [wrappers EXCEPT !.local[t] =
                                 [code |-> result.ret, out_value |-> result.value,
                                  error_msg |-> NULLH, call |-> result.st.n]]
       IN  called(IF arg.entry[t] = "parse" THEN gbln_parse(ffi, arg.doc[t])
                  ELSE gbln_read_io(ffi, arg.doc[t]))
    /\ pc' = [pc EXCEPT ![t] = "called"]
    /\ UNCHANGED <<arg, out>>

\* if (err != Ok): char* error_msg = gbln_last_error_message()
ThreadFetch(t) ==
    /\ pc[t] = "called"
    /\ wrappers.local[t].code # Ok
    /\ LET fetched(error_msg) ==
               /\ ffi' = error_msg.st
               /\ wrappers' = [wrappers EXCEPT !.local[t].error_msg = error_msg.ret]
       IN  fetched(gbln_last_error_message(ffi))
    /\ pc' = [pc EXCEPT ![t] = "fetched"]
    /\ UNCHANGED <<arg, out>>

ThreadRaise_drops_message(t) ==
    /\ pc[t] = "fetched"
    /\ ffi' = IF wrappers.local[t].error_msg # NULLH
              THEN gbln_string_free(ffi, wrappers.local[t].error_msg)
              ELSE ffi
    /\ out' = [out EXCEPT ![t] =
                 IF arg.entry[t] = "parse"
                 THEN [ret |-> NULLH, err |-> "ParseError",
                       msg |-> <<"", <<"Parse failed">>>>]
                 ELSE [ret |-> NULLH, err |-> "IoError",
                       msg |-> <<"Failed to read I/O file", <<"I/O read failed">>>>]]
    /\ pc' = [pc EXCEPT ![t] = IF arg.mutex THEN "returned" ELSE "done"]
    /\ UNCHANGED <<arg, wrappers>>

\* the message is copied, or the fallback text taken; gbln_string_free; throw
ThreadRaise(t) ==
    /\ pc[t] = "fetched"
    /\ ffi' = IF wrappers.local[t].error_msg # NULLH
              THEN gbln_string_free(ffi, wrappers.local[t].error_msg)
              ELSE ffi
    /\ out' = [out EXCEPT ![t] =
                 IF arg.entry[t] = "parse"
                 THEN [ret |-> NULLH, err |-> "ParseError",
                       msg |-> <<"", IF wrappers.local[t].error_msg # NULLH
                                     THEN ffi.strings[wrappers.local[t].error_msg].content
                                     ELSE <<"Parse failed">>>>]
                 ELSE [ret |-> NULLH, err |-> "IoError",
                       msg |-> <<"Failed to read I/O file",
                                 IF wrappers.local[t].error_msg # NULLH
                                 THEN ffi.strings[wrappers.local[t].error_msg].content
                                 ELSE <<"I/O read failed">>>>]]
    /\ pc' = [pc EXCEPT ![t] = IF arg.mutex THEN "returned" ELSE "done"]
    /\ UNCHANGED <<arg, wrappers>>

\* err == Ok: the tree is wrapped, converted and released; these calls work
\* on the thread's own tree
ThreadConvert(t) ==
    /\ pc[t] = "called"
    /\ wrappers.local[t].code = Ok
    /\ LET converted(r) ==
               /\ ffi' = r.st
               /\ out' = [out EXCEPT ![t] = Outcome(r)]
       IN  converted(IF arg.entry[t] = "parse"
                     THEN convert_parsed(ffi, wrappers.local[t].out_value,
                                         "ParseError", "Parse returned null pointer")
                     ELSE convert_parsed(ffi, wrappers.local[t].out_value,
                                         "IoError", "I/O read returned null pointer for: "))
    /\ pc' = [pc EXCEPT ![t] = IF arg.mutex THEN "returned" ELSE "done"]
    /\ UNCHANGED <<arg, wrappers>>

\* the caller gives its mutex back once the entry point has returned or thrown
ThreadUnlock(t) ==
    /\ arg.mutex
    /\ pc[t] = "returned"
    /\ wrappers.holder = t
    /\ wrappers' = [wrappers EXCEPT !.holder = 0]
    /\ pc' = [pc EXCEPT ![t] = "done"]
    /\ UNCHANGED <<arg, ffi, out>>

NextThreads ==
    \E t \in Threads :
        \/ ThreadLock(t)
        \/ ThreadCall(t)
        \/ ThreadFetch(t)
        \/ ThreadRaise(t)
        \/ ThreadConvert(t)
        \/ ThreadUnlock(t)
SpecThreads == InitThreads /\ [][NextThreads]_vars

(***************************************************************************)
(* Claims about the last-error state under two threads                     *)
(***************************************************************************)
\* thread t has raised the error of a failing gbln_parse / gbln_read_io with
\* a message it fetched
RaisedFetched(t) ==
    /\ pc[t] \in {"returned", "done"}
    /\ wrappers.local[t].code # Ok
    /\ wrappers.local[t].error_msg # NULLH
OwnMessage(t) == <<"error of call", wrappers.local[t].call>>

\* C20: with one caller-side mutex around every entry point, an error raised
\* from a fetched message carries the message of the thread's own failing
\* call; without it the message is that of some failing call of the process,
\* not necessarily the thread's own (the witness shows the other thread's).
C20_MutexOwnMessage ==
    \A t \in Threads :
        RaisedFetched(t) =>
            /\ Len(out[t].msg) = 2
            /\ arg.mutex => out[t].msg[2] = OwnMessage(t)
            /\ \E u \in Threads :
                  /\ wrappers.local[u].code # Ok
                  /\ out[t].msg[2] = OwnMessage(u)

\* no mutex, both calls failed, and the error of thread 1 carries the message
\* that the failure of thread 2 wrote
C20_Witness ==
    /\ ~arg.mutex
    /\ \A t \in Threads : pc[t] = "done" /\ RaisedFetched(t)
    /\ wrappers.local[1].call # wrappers.local[2].call
    /\ out[1].err = "ParseError"
    /\ out[1].msg[2] = OwnMessage(2)

\* with the mutex, both calls failed and each error carries its own message
C20_WitnessMutex ==
    /\ arg.mutex
    /\ \A t \in Threads : pc[t] = "done" /\ RaisedFetched(t)
    /\ \A t \in Threads : out[t].msg[2] = OwnMessage(t)
    /\ out[1].msg[2] # out[2].msg[2]

(***************************************************************************)
(* Claims about what cpp_to_ffi hands over and what ffi_to_cpp reads       *)
(***************************************************************************)
Insertions == {i \in LogIdx : ffi.log[i].op \in {"gbln_object_insert", "gbln_array_push"}}

\* C21: a cpp_to_ffi that returns normally returns a handle that is not null
\* and that the caller owns (live, in no container), and no insert or push it
\* made was given a null child, whichever constructor the engine failed.
C21_NonNullResult ==
    Converted =>
        /\ out.err = "" =>
              /\ out.ret # NULLH
              /\ ffi.heap[out.ret].freed = 0
              /\ ffi.heap[out.ret].ins = 0
        /\ \A i \in Insertions : ffi.log[i].h2 # NULLH

\* C22: when no foreign call fails, ffi_to_cpp of a foreign integer of any of
\* the eight tags returns the Integer whose number is the foreign number: a
\* value of the int64 lane equal to it, a U64 above 2^63 - 1 included.
C22_IntegersFit ==
    (WasRead /\ FaultsFired(ffi) = {} /\ ReadRoot # NULLH
        /\ ffi.heap[ReadRoot].tag \in IntTags) =>
        /\ out.err = ""
        /\ out.ret.tag = "Int"
        /\ InI64(out.ret.num)
        /\ out.ret.num = ffi.heap[ReadRoot].num

C23_WitnessError ==
    /\ EntryDone /\ arg.op = "to_string_pretty"
    /\ arg.config.indent = 7
    /\ arg.value.tag = "Array"
    /\ out.err = "SerialiseError"
    /\ out.msg = <<"Invalid UTF-8 sequence in string">>

(***************************************************************************)
(* Claims about the order of the foreign calls of cpp_to_ffi               *)
(***************************************************************************)
\* the constructor a leaf is built with
LeafConstructor(v) ==
    CASE v.tag = "Null"  -> "gbln_value_new_null"
      [] v.tag = "Bool"  -> "gbln_value_new_bool"
      [] v.tag = "Int"   -> ConstructorOf(ExpectedIntTag(v.num))
      [] v.tag = "Float" -> "gbln_value_new_f64"
      [] v.tag = "Str"   -> "gbln_value_new_str"

\* the calls a Value tree asks for, as <<operation, string>>: the container
\* first, then for each entry in the order of the keys (each element in the
\* order of the indices) all the calls of the child followed by its insert
\* (its push)
RECURSIVE ExpectedCalls(_), ExpectedChildren(_, _)
ExpectedChildren(v, i) ==
    IF i > Len(v.kids) THEN <<>>
    ELSE ExpectedCalls(v.kids[i])
         \o (IF v.tag = "Object" THEN <<<<"gbln_object_insert", CStr(v.keys[i])>>>>
             ELSE <<<<"gbln_array_push", <<>>>>>>)
         \o ExpectedChildren(v, i + 1)
ExpectedCalls(v) ==
    CASE v.tag = "Object" -> <<<<"gbln_value_new_object", <<>>>>>> \o ExpectedChildren(v, 1)
      [] v.tag = "Array"  -> <<<<"gbln_value_new_array", <<>>>>>> \o ExpectedChildren(v, 1)
      [] OTHER -> <<<<LeafConstructor(v), CStr(v.str)>>>>

\* the keys of every Object of the tree ascend in the order of std::string
RECURSIVE KeysAscend(_)
KeysAscend(v) ==
    /\ \A i \in 1..(Len(v.keys) - 1) : StrLt(v.keys[i], v.keys[i + 1])
    /\ \A i \in 1..Len(v.kids) : KeysAscend(v.kids[i])

\* the index of the call that constructed handle h
ConstructedAt(h) ==
    CHOOSE i \in LogIdx : ffi.log[i].ret = h /\ ffi.log[i].h = NULLH
                          /\ ffi.log[i].op \notin {"gbln_object_insert", "gbln_array_push"}

\* C25: the calls of a cpp_to_ffi that returns are fixed by the Value tree:
\* the container's constructor, then entry by entry in ascending key order
\* (element by element in index order) the child's calls and then its insert
\* (push); a child's constructor and every insert into it precede the call
\* that inserts it, and the next sibling's calls follow that call.
C25_ConstructionOrder ==
    (Converted /\ out.err = "") =>
        /\ KeysAscend(arg.value)
        /\ [i \in LogIdx |-> <<ffi.log[i].op, ffi.log[i].str>>] = ExpectedCalls(arg.value)
        /\ \A i \in Insertions :
              /\ ConstructedAt(ffi.log[i].h2) < i
              /\ ConstructedAt(ffi.log[i].h) < ConstructedAt(ffi.log[i].h2)
              /\ \A j \in Insertions :
                    /\ ffi.log[j].h = ffi.log[i].h2 => j < i
                    /\ (ffi.log[j].h = ffi.log[i].h /\ j < i) =>
                          j < ConstructedAt(ffi.log[i].h2)

\* an object of two keys whose second entry is a container was built
C25_Witness ==
    /\ Converted /\ out.err = ""
    /\ arg.value.tag = "Object"
    /\ Len(arg.value.keys) = 2
    /\ arg.value.kids[2].tag = "Array"
    /\ Len(arg.value.kids[2].kids) = 1
    /\ Len(ffi.log) = 7
    /\ ffi.log[3].op = "gbln_object_insert"
    /\ ffi.log[3].str = arg.value.keys[1]
    /\ ffi.log[6].op = "gbln_array_push"
    /\ ffi.log[7].op = "gbln_object_insert"
    /\ ffi.log[7].str = arg.value.keys[2]

(***************************************************************************)
(* Claims about what ffi_to_cpp leaves behind                              *)
(***************************************************************************)
\* the calls a step added to the log
NewCalls == (Len(ffi.log) + 1)..Len(ffi'.log)

\* C26: a step of ffi_to_cpp, ending in a value or in an error, leaves every
\* foreign value, string and configuration as it was (no value handle and no
\* string pointer is released, the tree is not changed); the only release
\* calls it makes are gbln_keys_free on key lists it obtained in that step.
\* Inside parse and read_io the same holds up to the release of the root by
\* the ManagedValue, which is the last call.
C26_ReadsBorrowed ==
    [][/\ (pc = "built" /\ pc' = "read") =>
            /\ ffi'.heap = ffi.heap
            /\ ffi'.strings = ffi.strings
            /\ ffi'.configs = ffi.configs
            /\ \A k \in 1..Len(ffi.keylists) : ffi'.keylists[k] = ffi.keylists[k]
            /\ \A i \in NewCalls :
                  ffi'.log[i].op \in Releases =>
                      /\ ffi'.log[i].op = "gbln_keys_free"
                      /\ ffi'.log[i].h > Len(ffi.keylists)
                      /\ \E j \in NewCalls :
                            /\ j < i
                            /\ ffi'.log[j].op = "gbln_object_keys"
                            /\ ffi'.log[j].ret = ffi'.log[i].h
       /\ (pc = "idle" /\ pc' = "done" /\ arg'.op \in {"parse", "read_io"}
             /\ ffi'.log[1].ret = Ok /\ ffi'.log[1].h # NULLH) =>
            /\ \A i \in NewCalls :
                  ffi'.log[i].op \in Releases \ {"gbln_keys_free"} =>
                      /\ i = Len(ffi'.log)
                      /\ ffi'.log[i].op = "gbln_value_free"
                      /\ ffi'.log[i].h = ffi'.log[1].h
            /\ \A h \in 1..Len(ffi'.heap) : ffi'.heap[h].freed <= 1
      ]_vars

\* an object holding a string was read: its key list was released, the
\* values are live and the string is where it was
C26_Witness ==
    /\ pc = "read"
    /\ out.err = ""
    /\ out.ret.tag = "Object"
    /\ Len(out.ret.kids) = 1
    /\ out.ret.kids[1].tag = "Str"
    /\ Len(ffi.keylists) = 1 /\ ffi.keylists[1].freed = 1
    /\ \A h \in Handles : ffi.heap[h].freed = 0
    /\ \E i \in LogIdx : ffi.log[i].op = "gbln_value_as_string"

\* an array was read up to an element that could not be got: nothing released
C26_WitnessError ==
    /\ pc = "read"
    /\ out.err = "ParseError"
    /\ arg.value.tag = "Array"
    /\ Len(arg.value.kids) = 2
    /\ \E i \in LogIdx : ffi.log[i].op = "gbln_array_get" /\ ffi.log[i].ret = NULLH /\ ffi.log[i].cap = 1
    /\ \A h \in Handles : ffi.heap[h].freed = 0

(***************************************************************************)
(* Claims about the recursion of the two conversions                       *)
(***************************************************************************)
\* the nodes and the depth of a Value tree
RECURSIVE Nodes(_), Depth(_)
SumOver(f, n) ==
    LET RECURSIVE upto(_)
        upto(i) == IF i = 0 THEN 0 ELSE f[i] + upto(i - 1)
    IN  upto(n)
Nodes(v) == 1 + SumOver([i \in 1..Len(v.kids) |-> Nodes(v.kids[i])], Len(v.kids))
Depth(v) ==
    LET below == {Depth(v.kids[i]) : i \in 1..Len(v.kids)}
    IN  1 + (IF below = {} THEN 0 ELSE CHOOSE d \in below : \A e \in below : e <= d)

\* the constructor calls, and the containers whose frame is open at call i:
\* constructed before i and not yet handed to their parent
Constructions ==
    {i \in LogIdx : ffi.log[i].h = NULLH /\ ffi.log[i].h2 = NULLH
                    /\ ffi.log[i].op \notin Releases \cup CodeOps
                    /\ ffi.log[i].op # "gbln_last_error_message"}
OpenAt(i) ==
    {j \in Constructions :
        /\ j < i
        /\ ffi.log[j].op \in {"gbln_value_new_object", "gbln_value_new_array"}
        /\ ~ \E k \in Insertions : k < i /\ ffi.log[k].h2 = ffi.log[j].ret}

\* the calls by which ffi_to_cpp enters a node (its accessor or its key
\* enumeration) and the calls that hand out a child
Enterings(h) ==
    {i \in LogIdx : /\ ffi.log[i].h = h
                    /\ ffi.log[i].op \in ScalarAccessors
                                          \cup {"gbln_value_as_string", "gbln_object_keys"}}
Gets(h) ==
    {i \in LogIdx : /\ ffi.log[i].ret = h
                    /\ ffi.log[i].op \in {"gbln_object_get", "gbln_array_get"}}

\* C27: both conversions end, with a value or an error, having visited each
\* node at most once.  cpp_to_ffi makes at most one constructor call a node,
\* and exactly one a node and one insert or push a child when it returns; the
\* frames open at once are then as many as the tree is deep, for every depth
\* drawn.  ffi_to_cpp enters each foreign node at most once and is handed
\* each child at most once, exactly once when it returns a value, and a
\* child is handed out only by a node entered before.
C27_VisitsEachNodeOnce ==
    /\ Converted =>
          /\ Cardinality(Constructions) <= Nodes(arg.value)
          /\ out.err = "" =>
                /\ Cardinality(Constructions) = Nodes(arg.value)
                /\ Cardinality(Insertions) = Nodes(arg.value) - 1
                /\ \A i \in Constructions : Cardinality(OpenAt(i)) + 1 <= Depth(arg.value)
                /\ \E i \in Constructions : Cardinality(OpenAt(i)) + 1 = Depth(arg.value)
    /\ WasRead =>
          /\ out.err \in {"", "ParseError", "IoError"}
          /\ \A h \in Handles :
                /\ Cardinality(Enterings(h)) <= 1
                /\ Cardinality(Gets(h)) <= 1
                /\ \A i \in Gets(h) :
                      \/ ffi.log[i].h = ReadRoot
                      \/ \E j \in Gets(ffi.log[i].h) : j < i
          /\ (out.err = "" /\ ReadRoot # NULLH) =>
                \A h \in Subtree(ffi.heap, ReadRoot) \ {ReadRoot} :
                    Cardinality(Gets(h)) = 1

\* a tree three deep was built: three frames were open at the innermost
\* constructor call
C27_Witness ==
    /\ Converted /\ out.err = ""
    /\ Depth(arg.value) = 3
    /\ Nodes(arg.value) = 4
    /\ \E i \in Constructions : Cardinality(OpenAt(i)) = 2

\* a tree three deep was read back: each of its nodes handed out once
C27_WitnessRead ==
    /\ pc = "read" /\ out.err = ""
    /\ Depth(arg.value) = 3
    /\ \A h \in Subtree(ffi.heap, ReadRoot) \ {ReadRoot} : Cardinality(Gets(h)) = 1
    /\ Cardinality(Subtree(ffi.heap, ReadRoot)) >= 4

(***************************************************************************)
(* Claims about the strings handed to the engine                           *)
(***************************************************************************)
\* the strings and the keys of a Value tree
RECURSIVE StringsOf(_), KeysOf(_)
StringsOf(v) ==
    (IF v.tag = "Str" THEN {v.str} ELSE {})
    \cup UNION {StringsOf(v.kids[i]) : i \in 1..Len(v.kids)}
KeysOf(v) ==
    {v.keys[i] : i \in 1..Len(v.keys)}
    \cup UNION {KeysOf(v.kids[i]) : i \in 1..Len(v.kids)}
StringCalls == {i \in LogIdx : ffi.log[i].op = "gbln_value_new_str"}
InsertCalls == {i \in LogIdx : ffi.log[i].op = "gbln_object_insert"}
CharsOf(str) == CountFrom(str, [at |-> 0, chars |-> 0, invalid |-> FALSE]).chars

\* C28: every string the engine receives from cpp_to_ffi is, byte for byte,
\* a string of the Value tree (a key of it, for an insert); the capacity
\* given with a string is the bucket of the characters of the bytes
\* received; and no two inserts into one object carry the same key.  Strings
\* holding a zero byte are among those drawn.
C28_StringsExact ==
    Converted =>
        /\ \A i \in StringCalls :
              /\ ffi.log[i].str \in StringsOf(arg.value)
              /\ ffi.log[i].cap = SmallestBucket(CharsOf(ffi.log[i].str))
        /\ \A i \in InsertCalls : ffi.log[i].str \in KeysOf(arg.value)
        /\ \A i \in InsertCalls, j \in InsertCalls :
              (i # j /\ ffi.log[i].h = ffi.log[j].h) => ffi.log[i].str # ffi.log[j].str

====
